---- MODULE Spec2Model ----
(***************************************************************************)
(* A model of the caching layer of FractalthornsAPI                        *)
(* (src/src/fractalthorns_api.py): the in-memory cache tables, the purge   *)
(* cooldowns, the fetch operations with their suspension points, and the   *)
(* JSON snapshots written by __save_cache.                                 *)
(*                                                                         *)
(* Time is counted in hours (the unit of every dt.timedelta in the file).  *)
(* Python's None is <<>>, a present optional x is <<x>>, and a cache entry *)
(* (value, cached_at) is the tuple <<value, cached_at>>, so Python's       *)
(* entry[0] / entry[1] read entry[1] / entry[2] here.                      *)
(***************************************************************************)
EXTENDS Integers, Sequences, FiniteSets, TLC

VARIABLES
    api,    \* the fields of the FractalthornsAPI instance
    disk,   \* the files under __apicache__/ : file name -> content
    now,    \* dt.datetime.now(dt.UTC), in hours
    calls,  \* per logical caller: the coroutine frames awaiting the transport
    ret,    \* what the operation that finished last returned or raised
    ops     \* number of operations started so far

vars == <<api, disk, now, calls, ret, ops>>

-----------------------------------------------------------------------------
(* Bounds of the model *)

\* operations (purges, fetches) started in one behaviour of a specification
MaxPurges == 2
MaxFetches == 2
MaxRaces == 3
\* one fetch under SpecStale; fetches and purges under SpecForced
MaxStale == 1
MaxForced == 2

-----------------------------------------------------------------------------
(* Enumerations and configuration *)

None == <<>>
Some(x) == <<x>>

NEWS_ITEMS == "news"
IMAGES == "images"
IMAGE_CONTENTS == "image contents"
IMAGE_DESCRIPTIONS == "image descriptions"
CHAPTERS == "chapters"
RECORDS == "records"
RECORD_CONTENTS == "record contents"
SEARCH_RESULTS == "search results"
FULL_RECORD_CONTENTS == "full record contents"
CACHE_METADATA == "cache metadata"

CacheTypes ==
    { NEWS_ITEMS, IMAGES, IMAGE_CONTENTS, IMAGE_DESCRIPTIONS, CHAPTERS, RECORDS,
      RECORD_CONTENTS, SEARCH_RESULTS, FULL_RECORD_CONTENTS, CACHE_METADATA }

CACHE_DURATION ==
    (NEWS_ITEMS :> 12) @@ (IMAGES :> 12) @@ (IMAGE_CONTENTS :> 72)
    @@ (IMAGE_DESCRIPTIONS :> 72) @@ (CHAPTERS :> 12) @@ (RECORDS :> 12)
    @@ (RECORD_CONTENTS :> 72) @@ (SEARCH_RESULTS :> 12)
    @@ (FULL_RECORD_CONTENTS :> 730)

CACHE_PURGE_COOLDOWN ==
    (NEWS_ITEMS :> 1) @@ (IMAGES :> 1) @@ (IMAGE_CONTENTS :> 3)
    @@ (IMAGE_DESCRIPTIONS :> 3) @@ (CHAPTERS :> 1) @@ (RECORDS :> 1)
    @@ (RECORD_CONTENTS :> 3) @@ (SEARCH_RESULTS :> 1)
    @@ (FULL_RECORD_CONTENTS :> 24)

CACHE_PURGE == "Too soon since last cache purge"
INVALID_CACHE == "Not a valid cache type"

base_url == "https://fractalthorns.com"
CACHE_PATH == "__apicache__/cache_"
CACHE_EXT == ".json"
CACHE_BAK == ".bak"

\* The key None of the images tables (the "no name given" default image).
\* It is a value no image name equals; the files spell it "__None__".
NoneKey == "None"
NoneToken == "__None__"

-----------------------------------------------------------------------------
(* Small helpers on dicts (functions with a finite domain) *)

EmptyDict == <<>>

\* dict.update({k: v})
Update(d, k, v) == [x \in (DOMAIN d) \cup {k} |-> IF x = k THEN v ELSE d[x]]

\* dict.get(k), as an optional
Get(d, k) == IF k \in DOMAIN d THEN Some(d[k]) ELSE None

-----------------------------------------------------------------------------
(* Value shapes (src.fractalthorns_dataclasses is not part of the sources; *)
(* the shapes keep the fields the cache code reads)                        *)

\* ftd.NewsEntry.from_obj
NewsEntryFromObj(o) == [title |-> o.title]

\* ftd.Image.from_obj
ImageFromObj(o) ==
    [name |-> o.name, title |-> o.title, image_url |-> o.image_url,
     thumb_url |-> o.thumb_url]

\* ftd.ImageDescription.from_obj
ImageDescriptionFromObj(o) == [title |-> o.title, description |-> o.description]

\* ftd.Record.from_obj
RecordFromObj(o) == [name |-> o.name, title |-> o.title, solved |-> o.solved]

\* ftd.Chapter.from_obj: the nested records are converted too
ChapterFromObj(o) ==
    [name |-> o.name,
     records |-> [i \in DOMAIN o.records |-> RecordFromObj(o.records[i])]]

\* A variant of RecordTextFromObj that leaves the title empty, as
\* the record_text response has none.
RecordTextOwnTitle(title, o) == [title |-> "", lines |-> o.lines]

\* ftd.RecordText.from_obj(title, obj)
RecordTextFromObj(title, o) == [title |-> title, lines |-> o.lines]

\* ftd.SearchResult.from_obj
SearchResultFromObj(o) ==
    [type |-> o.type,
     image |-> IF o.image = None THEN None ELSE Some(ImageFromObj(o.image[1])),
     record |-> IF o.record = None THEN None ELSE Some(RecordFromObj(o.record[1])),
     record_line_index |-> o.record_line_index,
     record_line |-> o.record_line]

\* dataclasses.asdict
asdict(v) == v

\* datetime.timestamp(): seconds since the epoch
timestamp(t) == t * 3600

\* datetime.fromtimestamp(s, tz=UTC)
fromtimestamp(s) == s \div 3600

-----------------------------------------------------------------------------
(* The instance after the assignments of __init__, before __load_all_cache *)

NewApi ==
    [cached_news_items |-> None,
     cached_images |-> EmptyDict,
     cached_image_contents |-> EmptyDict,
     cached_image_descriptions |-> EmptyDict,
     cached_chapters |-> None,
     cached_records |-> EmptyDict,
     cached_record_contents |-> EmptyDict,
     cached_search_results |-> EmptyDict,
     cached_full_record_contents |-> None,
     last_all_images_cache |-> None,
     last_full_episodic_cache |-> None,
     last_cache_purge |-> EmptyDict,
     \* the attribute purge_cache creates for FULL_RECORD_CONTENTS;
     \* "unset" until then
     full_record_contents |-> "unset"]

\* The in-memory table of a cache type (CACHE_METADATA has none).
Table(a, cache) ==
    CASE cache = NEWS_ITEMS -> a.cached_news_items
      [] cache = IMAGES -> a.cached_images
      [] cache = IMAGE_CONTENTS -> a.cached_image_contents
      [] cache = IMAGE_DESCRIPTIONS -> a.cached_image_descriptions
      [] cache = CHAPTERS -> a.cached_chapters
      [] cache = RECORDS -> a.cached_records
      [] cache = RECORD_CONTENTS -> a.cached_record_contents
      [] cache = SEARCH_RESULTS -> a.cached_search_results
      [] cache = FULL_RECORD_CONTENTS -> a.cached_full_record_contents

-----------------------------------------------------------------------------
(* purge_cache *)

\* Variants of the cooldown test, each with one slip.
PurgeTooSoonInclusive(a, cache, force_purge, t) ==
    /\ ~force_purge
    /\ Get(a.last_cache_purge, cache) # None
    /\ t <= a.last_cache_purge[cache] + CACHE_PURGE_COOLDOWN[cache]

PurgeTooSoonIgnoringForce(a, cache, force_purge, t) ==
    /\ Get(a.last_cache_purge, cache) # None
    /\ t < a.last_cache_purge[cache] + CACHE_PURGE_COOLDOWN[cache]

\* The cooldown test of purge_cache (lines 232-237).
PurgeTooSoon(a, cache, force_purge, t) ==
    /\ ~force_purge
    /\ Get(a.last_cache_purge, cache) # None
    /\ t < a.last_cache_purge[cache] + CACHE_PURGE_COOLDOWN[cache]

\* A variant of the match statement in which purging images also drops
\* what was cached from them.
PurgeTableCascade(a, cache) ==
    CASE cache = NEWS_ITEMS -> [a EXCEPT !.cached_news_items = None]
      [] cache = IMAGES ->
            [a EXCEPT !.cached_images = EmptyDict, !.last_all_images_cache = None,
                      !.cached_image_contents = EmptyDict,
                      !.cached_image_descriptions = EmptyDict]
      [] cache = IMAGE_CONTENTS -> [a EXCEPT !.cached_image_contents = EmptyDict]
      [] cache = IMAGE_DESCRIPTIONS ->
            [a EXCEPT !.cached_image_descriptions = EmptyDict]
      [] cache = CHAPTERS ->
            [a EXCEPT !.cached_chapters = None, !.last_full_episodic_cache = None]
      [] cache = RECORDS -> [a EXCEPT !.cached_records = EmptyDict]
      [] cache = RECORD_CONTENTS -> [a EXCEPT !.cached_record_contents = EmptyDict]
      [] cache = SEARCH_RESULTS -> [a EXCEPT !.cached_search_results = EmptyDict]
      [] cache = FULL_RECORD_CONTENTS -> [a EXCEPT !.full_record_contents = "None"]

\* The match statement of purge_cache (lines 243-263), for a known type.
PurgeTable(a, cache) ==
    CASE cache = NEWS_ITEMS -> [a EXCEPT !.cached_news_items = None]
      [] cache = IMAGES ->
            [a EXCEPT !.cached_images = EmptyDict, !.last_all_images_cache = None]
      [] cache = IMAGE_CONTENTS -> [a EXCEPT !.cached_image_contents = EmptyDict]
      [] cache = IMAGE_DESCRIPTIONS ->
            [a EXCEPT !.cached_image_descriptions = EmptyDict]
      [] cache = CHAPTERS ->
            [a EXCEPT !.cached_chapters = None, !.last_full_episodic_cache = None]
      [] cache = RECORDS -> [a EXCEPT !.cached_records = EmptyDict]
      [] cache = RECORD_CONTENTS -> [a EXCEPT !.cached_record_contents = EmptyDict]
      [] cache = SEARCH_RESULTS -> [a EXCEPT !.cached_search_results = EmptyDict]
      \* line 263 assigns self.__full_record_contents, not
      \* self.__cached_full_record_contents
      [] cache = FULL_RECORD_CONTENTS -> [a EXCEPT !.full_record_contents = "None"]

\* A variant of purge_cache without the default case of the match.
purge_cache_NoDefaultCase(a, cache, force_purge, t) ==
    IF PurgeTooSoon(a, cache, force_purge, t)
    THEN [raised |-> TRUE,
          err |-> <<"CachePurgeError", CACHE_PURGE,
                    Some(a.last_cache_purge[cache] + CACHE_PURGE_COOLDOWN[cache])>>,
          api |-> a]
    ELSE [raised |-> FALSE,
          err |-> None,
          api |-> [(IF cache = CACHE_METADATA THEN a ELSE PurgeTable(a, cache))
                     EXCEPT !.last_cache_purge = Update(@, cache, t)]]

\* A variant of purge_cache that returns early when there is nothing to
\* clear.
purge_cache_SkipEmpty(a, cache, force_purge, t) ==
    IF PurgeTooSoon(a, cache, force_purge, t)
    THEN [raised |-> TRUE,
          err |-> <<"CachePurgeError", CACHE_PURGE,
                    Some(a.last_cache_purge[cache] + CACHE_PURGE_COOLDOWN[cache])>>,
          api |-> a]
    ELSE IF cache = CACHE_METADATA
    THEN [raised |-> TRUE,
          err |-> <<"CachePurgeError", INVALID_CACHE, None>>,
          api |-> a]
    ELSE IF Table(a, cache) = <<>>
    THEN [raised |-> FALSE, err |-> None, api |-> a]
    ELSE [raised |-> FALSE,
          err |-> None,
          api |-> [PurgeTable(a, cache) EXCEPT
                     !.last_cache_purge = Update(@, cache, t)]]

\* A variant of purge_cache in which a forced purge leaves no purge
\* record.
purge_cache_ForcedUnrecorded(a, cache, force_purge, t) ==
    IF PurgeTooSoon(a, cache, force_purge, t)
    THEN [raised |-> TRUE,
          err |-> <<"CachePurgeError", CACHE_PURGE,
                    Some(a.last_cache_purge[cache] + CACHE_PURGE_COOLDOWN[cache])>>,
          api |-> a]
    ELSE IF cache = CACHE_METADATA
    THEN [raised |-> TRUE,
          err |-> <<"CachePurgeError", INVALID_CACHE, None>>,
          api |-> a]
    ELSE [raised |-> FALSE,
          err |-> None,
          api |-> IF force_purge THEN PurgeTable(a, cache)
                  ELSE [PurgeTable(a, cache) EXCEPT
                          !.last_cache_purge = Update(@, cache, t)]]

\* purge_cache(cache, force_purge) at time t:
\* [raised, err, api], err = <<exception, message, allowed-again time>>.
purge_cache(a, cache, force_purge, t) ==
    IF PurgeTooSoon(a, cache, force_purge, t)
    THEN [raised |-> TRUE,
          err |-> <<"CachePurgeError", CACHE_PURGE,
                    Some(a.last_cache_purge[cache] + CACHE_PURGE_COOLDOWN[cache])>>,
          api |-> a]
    ELSE IF cache = CACHE_METADATA
    THEN [raised |-> TRUE,
          err |-> <<"CachePurgeError", INVALID_CACHE, None>>,
          api |-> a]
    ELSE [raised |-> FALSE,
          err |-> None,
          api |-> [PurgeTable(a, cache) EXCEPT
                     !.last_cache_purge = Update(@, cache, t)]]

-----------------------------------------------------------------------------
(* get_cached_items(cache, ignore_stale=...) at time t:                    *)
(* [raised, err, value], value being None or Some(what is returned).       *)

\* A variant of get_cached_items that hands the news and the chapters
\* back whether stale or not, as if ignore_stale were always given.
get_cached_items_KeepStale(a, cache, ignore_stale, t) ==
    CASE cache \in {NEWS_ITEMS, CHAPTERS} ->
           IF Table(a, cache) = None
           THEN [raised |-> FALSE, err |-> None, value |-> None]
           ELSE [raised |-> FALSE, err |-> None,
                 value |-> Some(<<Table(a, cache)[1], Table(a, cache)[2],
                                  Table(a, cache)[2] + CACHE_DURATION[cache]>>)]
      [] OTHER ->
           [raised |-> TRUE, err |-> Some("CacheFetchError"), value |-> None]

get_cached_items(a, cache, ignore_stale, t) ==
    CASE cache \in {NEWS_ITEMS, CHAPTERS} ->
           \* lines 374-384
           IF Table(a, cache) = None
           THEN [raised |-> FALSE, err |-> None, value |-> None]
           ELSE IF ~ignore_stale /\ t > Table(a, cache)[2] + CACHE_DURATION[cache]
           THEN [raised |-> FALSE, err |-> None, value |-> None]
           ELSE [raised |-> FALSE, err |-> None,
                 value |-> Some(<<Table(a, cache)[1], Table(a, cache)[2],
                                  Table(a, cache)[2] + CACHE_DURATION[cache]>>)]
      [] cache \in {IMAGES, IMAGE_CONTENTS, IMAGE_DESCRIPTIONS, RECORDS,
                    RECORD_CONTENTS, SEARCH_RESULTS} ->
           \* lines 386-402: the loop pops a stale item from the dict it
           \* iterates over, and the iterator raises RuntimeError when it
           \* is asked for the next item, whichever item was popped
           IF ~ignore_stale
              /\ \E i \in DOMAIN Table(a, cache) :
                    t > Table(a, cache)[i][2] + CACHE_DURATION[cache]
           THEN [raised |-> TRUE, err |-> Some("RuntimeError"), value |-> None]
           ELSE [raised |-> FALSE, err |-> None,
                 value |-> Some([i \in DOMAIN Table(a, cache) |->
                                   <<Table(a, cache)[i][1], Table(a, cache)[i][2],
                                     Table(a, cache)[i][2] + CACHE_DURATION[cache]>>])]
      [] cache = CACHE_METADATA ->
           \* lines 353-372: None + timedelta raises TypeError
           IF a.last_all_images_cache = None \/ a.last_full_episodic_cache = None
           THEN [raised |-> TRUE, err |-> Some("TypeError"), value |-> None]
           ELSE [raised |-> FALSE, err |-> None,
                 value |-> Some(
                    [last_all_images_cache |->
                        <<a.last_all_images_cache[1],
                          a.last_all_images_cache[1] + CACHE_DURATION[IMAGES]>>,
                     last_full_episodic_cache |->
                        <<a.last_full_episodic_cache[1],
                          a.last_full_episodic_cache[1] + CACHE_DURATION[CHAPTERS]>>,
                     last_cache_purge |->
                        [i \in DOMAIN a.last_cache_purge |->
                            <<a.last_cache_purge[i],
                              a.last_cache_purge[i] + CACHE_PURGE_COOLDOWN[i]>>]])]
      [] OTHER ->
           \* case _ (FULL_RECORD_CONTENTS)
           [raised |-> TRUE, err |-> Some("CacheFetchError"), value |-> None]

-----------------------------------------------------------------------------
(* Files.  A file holding a complete document doc is <<doc>>; a file that  *)
(* was opened for writing and holds nothing that parses is <<>>.           *)

Document(doc) == <<doc>>

\* cache.value.replace(" ", "_")
Underscored(cache) ==
    CASE cache = NEWS_ITEMS -> "news"
      [] cache = IMAGES -> "images"
      [] cache = IMAGE_CONTENTS -> "image_contents"
      [] cache = IMAGE_DESCRIPTIONS -> "image_descriptions"
      [] cache = CHAPTERS -> "chapters"
      [] cache = RECORDS -> "records"
      [] cache = RECORD_CONTENTS -> "record_contents"
      [] cache = SEARCH_RESULTS -> "search_results"
      [] cache = FULL_RECORD_CONTENTS -> "full_record_contents"
      [] cache = CACHE_METADATA -> "cache_metadata"

\* cache_path of the JSON branch (lines 949-951, 1095-1097); for
\* IMAGE_CONTENTS this is cache_meta, the index file (lines 913, 1086)
CachePath(cache) == CACHE_PATH \o Underscored(cache) \o CACHE_EXT

\* cache_path of the IMAGE_CONTENTS branch: a directory (lines 908, 1063)
ImageDir == CACHE_PATH \o Underscored(IMAGE_CONTENTS)
ImagePath(name) == ImageDir \o "/image_" \o name \o ".png"
ThumbPath(name) == ImageDir \o "/thumb_" \o name \o ".png"

Exists(d, f) == f \in DOMAIN d

\* open(f, "w") and a completed write of doc
WriteFile(d, f, content) == Update(d, f, content)

\* A variant of BackupFile that keeps no backup: the file is left where
\* it is, to be overwritten.
BackupFileNone(d, f) == d

\* if Path(f).exists(): Path(f).replace(f + ".bak")
BackupFile(d, f) ==
    IF Exists(d, f)
    THEN [x \in ((DOMAIN d) \ {f}) \cup {f \o CACHE_BAK} |->
            IF x = f \o CACHE_BAK THEN d[f] ELSE d[x]]
    ELSE d

\* i if i is not None else "__None__"
ToFileKey(k) == IF k = NoneKey THEN NoneToken ELSE k

\* i if i != "__None__" else None
FromFileKey(k) == IF k = NoneToken THEN NoneKey ELSE k

\* Texts that the code takes apart are sequences of tokens.
\* f"{i[0]}|{i[1]}"
JoinSearchKey(k) == k[1] \o <<"|">> \o k[2]

\* A variant of rindex: the first position of ch, as i.index("|") gives.
rindexFirst(s, ch) ==
    IF \E i \in 1..Len(s) : s[i] = ch
    THEN CHOOSE i \in 1..Len(s) : s[i] = ch /\ \A j \in 1..(i-1) : s[j] # ch
    ELSE 0

\* i.rindex("|"); 0 stands for the ValueError of a text without "|"
rindex(s, ch) ==
    IF \E i \in 1..Len(s) : s[i] = ch
    THEN CHOOSE i \in 1..Len(s) : s[i] = ch /\ \A j \in (i+1)..Len(s) : s[j] # ch
    ELSE 0

\* (i[: i.rindex("|")], i[i.rindex("|") + 1 :])
SplitSearchKey(i) ==
    <<SubSeq(i, 1, rindex(i, "|") - 1), SubSeq(i, rindex(i, "|") + 1, Len(i))>>

-----------------------------------------------------------------------------
(* __save_cache *)

\* A dict table as written: key -> (asdict(value), cached_at.timestamp())
DumpEntries(table) ==
    [k \in DOMAIN table |-> <<asdict(table[k][1]), timestamp(table[k][2])>>]

\* cache_contents of the match statement (lines 1104-1177); None when the
\* table of a tuple-shaped cache is None (subscripting it raises TypeError)
CacheContents(a, cache) ==
    CASE cache = NEWS_ITEMS ->
            IF a.cached_news_items = None THEN None
            ELSE Some(<<[i \in DOMAIN a.cached_news_items[1] |->
                            asdict(a.cached_news_items[1][i])],
                        timestamp(a.cached_news_items[2])>>)
      [] cache = IMAGES ->
            Some([f \in {ToFileKey(k) : k \in DOMAIN a.cached_images} |->
                    LET k == CHOOSE k \in DOMAIN a.cached_images : ToFileKey(k) = f
                    IN  <<asdict(a.cached_images[k][1]),
                          timestamp(a.cached_images[k][2])>>])
      [] cache = IMAGE_DESCRIPTIONS -> Some(DumpEntries(a.cached_image_descriptions))
      [] cache = CHAPTERS ->
            IF a.cached_chapters = None THEN None
            ELSE Some(<<[i \in DOMAIN a.cached_chapters[1] |->
                            asdict(a.cached_chapters[1][i])],
                        timestamp(a.cached_chapters[2])>>)
      [] cache = RECORDS -> Some(DumpEntries(a.cached_records))
      [] cache = RECORD_CONTENTS -> Some(DumpEntries(a.cached_record_contents))
      [] cache = SEARCH_RESULTS ->
            Some([f \in {JoinSearchKey(k) : k \in DOMAIN a.cached_search_results} |->
                    LET k == CHOOSE k \in DOMAIN a.cached_search_results :
                                JoinSearchKey(k) = f
                    IN  <<[i \in DOMAIN a.cached_search_results[k][1] |->
                              asdict(a.cached_search_results[k][1][i])],
                          timestamp(a.cached_search_results[k][2])>>])
      [] cache = FULL_RECORD_CONTENTS ->
            IF a.cached_full_record_contents = None THEN None
            ELSE Some(<<[i \in DOMAIN a.cached_full_record_contents[1] |->
                            asdict(a.cached_full_record_contents[1][i])],
                        timestamp(a.cached_full_record_contents[2])>>)
      [] cache = CACHE_METADATA ->
            \* i.value of a key that is a str, not a CacheTypes, raises
            \* AttributeError
            IF ~(DOMAIN a.last_cache_purge \subseteq CacheTypes) THEN None
            ELSE
            Some([last_all_images_cache |->
                      IF a.last_all_images_cache = None THEN None
                      ELSE Some(timestamp(a.last_all_images_cache[1])),
                  last_full_episodic_cache |->
                      IF a.last_full_episodic_cache = None THEN None
                      ELSE Some(timestamp(a.last_full_episodic_cache[1])),
                  last_cache_purge |->
                      [i \in DOMAIN a.last_cache_purge |->
                          timestamp(a.last_cache_purge[i])]])

\* The JSON branch for CACHE_METADATA (lines 1094-1180; no recursion).
SaveMetadata(a, d) ==
    WriteFile(BackupFile(d, CachePath(CACHE_METADATA)), CachePath(CACHE_METADATA),
              Document(CacheContents(a, CACHE_METADATA)[1]))

\* The IMAGE_CONTENTS branch (lines 1062-1092): one step per item of the
\* table, then the index.  items is the set of keys still to write.
RECURSIVE SaveImages(_, _, _)
SaveImages(a, d, items) ==
    IF items = {} THEN d
    ELSE LET i == CHOOSE i \in items : TRUE
             name == ToFileKey(i)
             j == a.cached_image_contents[i]
             d1 == BackupFile(BackupFile(d, ImagePath(name)), ThumbPath(name))
             d2 == WriteFile(WriteFile(d1, ImagePath(name), Document(j[1][1])),
                             ThumbPath(name), Document(j[1][2]))
         IN  SaveImages(a, d2, items \ {i})

\* __save_cache(cache): [raised, err, disk].  The target is renamed to .bak
\* before cache_contents is built, and the metadata file is rewritten from
\* inside the with block of every other JSON cache (where it is renamed
\* before its own contents are built).
save_cache(a, d, cache) ==
    IF cache = IMAGE_CONTENTS
    THEN LET d1 == SaveImages(a, WriteFile(d, ImageDir, Document("dir")),
                              DOMAIN a.cached_image_contents)
             saved_images ==
                 [f \in {ToFileKey(k) : k \in DOMAIN a.cached_image_contents} |->
                     timestamp(a.cached_image_contents[
                         CHOOSE k \in DOMAIN a.cached_image_contents :
                             ToFileKey(k) = f][2])]
         IN  [raised |-> FALSE, err |-> None,
              disk |-> WriteFile(BackupFile(d1, CachePath(cache)), CachePath(cache),
                                 Document(saved_images))]
    ELSE LET d1 == BackupFile(d, CachePath(cache))
             cache_contents == CacheContents(a, cache)
         IN  IF cache_contents = None
             THEN [raised |-> TRUE, disk |-> d1,
                   err |-> Some(IF cache = CACHE_METADATA THEN "AttributeError"
                                ELSE "TypeError")]
             ELSE LET d2 == WriteFile(d1, CachePath(cache),
                                      Document(cache_contents[1]))
                  IN  IF cache = CACHE_METADATA
                      THEN [raised |-> FALSE, err |-> None, disk |-> d2]
                      ELSE IF CacheContents(a, CACHE_METADATA) = None
                      THEN [raised |-> TRUE, err |-> Some("AttributeError"),
                            disk |-> BackupFile(d2, CachePath(CACHE_METADATA))]
                      ELSE [raised |-> FALSE, err |-> None,
                            disk |-> SaveMetadata(a, d2)]

\* The files a process that dies in the course of __save_cache(cache), a
\* JSON cache, may leave: d as it was; after the rename (line 1102); with
\* the new file opened and nothing of it on disk yet (line 1179); and,
\* in the save of the cache metadata made inside the with block (line
\* 1183), the same steps for the metadata file.  The new file is closed
\* only when the with block ends, so until then what was written to it
\* may or may not have reached the disk.
CrashedSaves(a, d, cache) ==
    LET d1 == BackupFile(d, CachePath(cache))
        d2 == WriteFile(d1, CachePath(cache), <<>>)
        written == {d2, WriteFile(d1, CachePath(cache),
                                  Document(CacheContents(a, cache)[1]))}
    IN  {d, d1, d2}
        \cup (IF cache = CACHE_METADATA THEN {}
              ELSE written
                   \cup {BackupFile(d3, CachePath(CACHE_METADATA)) : d3 \in written}
                   \cup {WriteFile(BackupFile(d3, CachePath(CACHE_METADATA)),
                                   CachePath(CACHE_METADATA), <<>>) : d3 \in written})

-----------------------------------------------------------------------------
(* __load_cache and __load_all_cache *)

\* The IMAGE_CONTENTS branch (lines 921-946): the table is updated item by
\* item; an item whose image or thumbnail file is missing is skipped.
RECURSIVE LoadImages(_, _, _, _)
LoadImages(a, d, saved_images, items) ==
    IF items = {} THEN a
    ELSE LET i == CHOOSE i \in items : TRUE
             present == Exists(d, ImagePath(i)) /\ Exists(d, ThumbPath(i))
             a1 == IF present
                   THEN [a EXCEPT !.cached_image_contents =
                           Update(@, FromFileKey(i),
                                  <<<<d[ImagePath(i)][1], d[ThumbPath(i)][1]>>,
                                    fromtimestamp(saved_images[i])>>)]
                   ELSE a
         IN  LoadImages(a1, d, saved_images, items \ {i})

\* __load_cache(cache) raises an exception that line 1053 does not catch
\* (it catches JSONDecodeError and ValueError): the IndexError of j[1] or
\* cache_contents[1] when an entry of the file lacks its timestamp.
LoadRaises(d, cache) ==
    /\ cache \notin {IMAGE_CONTENTS, CACHE_METADATA}
    /\ Exists(d, CachePath(cache))
    /\ d[CachePath(cache)] # <<>>
    /\ IF cache \in {NEWS_ITEMS, CHAPTERS, FULL_RECORD_CONTENTS}
       THEN Len(d[CachePath(cache)][1]) < 2
       ELSE \E i \in DOMAIN d[CachePath(cache)][1] :
               Len(d[CachePath(cache)][1][i]) < 2

\* __load_cache(cache) on an instance a and the files d.  A missing file
\* leaves the instance as it is; so does a file that does not parse
\* (json.decoder.JSONDecodeError is caught at line 1053).
load_cache(a, d, cache) ==
    IF cache = IMAGE_CONTENTS
    THEN IF ~Exists(d, ImageDir) \/ ~Exists(d, CachePath(cache)) THEN a
         ELSE IF d[CachePath(cache)] = <<>> THEN a
         ELSE LET saved_images == d[CachePath(cache)][1]
              IN  LoadImages(a, d, saved_images, DOMAIN saved_images)
    ELSE IF ~Exists(d, CachePath(cache)) THEN a
    ELSE IF d[CachePath(cache)] = <<>> THEN a
    ELSE LET cache_contents == d[CachePath(cache)][1] IN
      CASE cache = NEWS_ITEMS ->
             [a EXCEPT !.cached_news_items =
                 <<[i \in DOMAIN cache_contents[1] |->
                       NewsEntryFromObj(cache_contents[1][i])],
                   fromtimestamp(cache_contents[2])>>]
        [] cache = IMAGES ->
             [a EXCEPT !.cached_images =
                 [k \in {FromFileKey(i) : i \in DOMAIN cache_contents} |->
                     LET i == CHOOSE i \in DOMAIN cache_contents : FromFileKey(i) = k
                     IN  <<ImageFromObj(cache_contents[i][1]),
                           fromtimestamp(cache_contents[i][2])>>]]
        [] cache = IMAGE_DESCRIPTIONS ->
             [a EXCEPT !.cached_image_descriptions =
                 [k \in DOMAIN cache_contents |->
                     <<ImageDescriptionFromObj(cache_contents[k][1]),
                       fromtimestamp(cache_contents[k][2])>>]]
        [] cache = CHAPTERS ->
             [a EXCEPT !.cached_chapters =
                 <<[i \in DOMAIN cache_contents[1] |->
                       ChapterFromObj(cache_contents[1][i])],
                   fromtimestamp(cache_contents[2])>>]
        [] cache = RECORDS ->
             [a EXCEPT !.cached_records =
                 [k \in DOMAIN cache_contents |->
                     <<RecordFromObj(cache_contents[k][1]),
                       fromtimestamp(cache_contents[k][2])>>]]
        [] cache = RECORD_CONTENTS ->
             [a EXCEPT !.cached_record_contents =
                 [k \in DOMAIN cache_contents |->
                     <<RecordTextFromObj(cache_contents[k][1].title,
                                         cache_contents[k][1]),
                       fromtimestamp(cache_contents[k][2])>>]]
        [] cache = SEARCH_RESULTS ->
             [a EXCEPT !.cached_search_results =
                 [k \in {SplitSearchKey(i) : i \in DOMAIN cache_contents} |->
                     LET i == CHOOSE i \in DOMAIN cache_contents :
                                 SplitSearchKey(i) = k
                     IN  <<[n \in DOMAIN cache_contents[i][1] |->
                               SearchResultFromObj(cache_contents[i][1][n])],
                           fromtimestamp(cache_contents[i][2])>>]]
        [] cache = FULL_RECORD_CONTENTS ->
             [a EXCEPT !.cached_full_record_contents =
                 <<[i \in DOMAIN cache_contents[1] |->
                       RecordTextFromObj(cache_contents[1][i].title,
                                         cache_contents[1][i])],
                   fromtimestamp(cache_contents[2])>>]
        [] cache = CACHE_METADATA ->
             \* lines 1027-1050: the three attributes are assigned as read,
             \* then converted one after the other; CacheTypes(i) of a name
             \* that is no cache type raises ValueError, which line 1053
             \* catches with the purge map still as it was read
             [a EXCEPT
                !.last_all_images_cache =
                    IF cache_contents.last_all_images_cache = None THEN None
                    ELSE Some(fromtimestamp(cache_contents.last_all_images_cache[1])),
                !.last_full_episodic_cache =
                    IF cache_contents.last_full_episodic_cache = None THEN None
                    ELSE Some(fromtimestamp(cache_contents.last_full_episodic_cache[1])),
                !.last_cache_purge =
                    IF DOMAIN cache_contents.last_cache_purge \subseteq CacheTypes
                    THEN [i \in DOMAIN cache_contents.last_cache_purge |->
                             fromtimestamp(cache_contents.last_cache_purge[i])]
                    ELSE cache_contents.last_cache_purge]

\* for i in self.CacheTypes: await self.__load_cache(i), in the order of
\* the enum (CACHE_METADATA last); an exception of one load ends the loop
LoadOrder ==
    << NEWS_ITEMS, IMAGES, IMAGE_CONTENTS, IMAGE_DESCRIPTIONS, CHAPTERS, RECORDS,
       RECORD_CONTENTS, SEARCH_RESULTS, FULL_RECORD_CONTENTS, CACHE_METADATA >>

RECURSIVE LoadFrom(_, _, _)
LoadFrom(a, d, n) ==
    IF n > Len(LoadOrder) THEN a
    ELSE IF LoadRaises(d, LoadOrder[n]) THEN a
    ELSE LoadFrom(load_cache(a, d, LoadOrder[n]), d, n + 1)

load_all_cache(a, d) == LoadFrom(a, d, 1)

-----------------------------------------------------------------------------
(* The fetch operations.  A coroutine runs without interruption from one   *)
(* awaited transport request to the next; __save_cache awaits nothing but  *)
(* itself, so it never yields.  The frames of a suspended call are a stack *)
(* [fn, key, stage, hold], innermost last; the innermost frame is the one  *)
(* whose request is in flight.  Every operator below yields                *)
(*   [api, disk, stack, status, value, err]                                *)
(* with status "suspended" (a request was issued), "returned" or "raised"  *)
(* when the segment is over, and "calling" (the innermost frame calls a    *)
(* private fetch) or "returning" (a private fetch returns to the frame     *)
(* that awaits it) when it goes on; Run takes it to its end.               *)
(*                                                                         *)
(* A result that is used more than once is bound through a singleton set   *)
(* (CHOOSE r \in {e(x) : x \in {v}} : TRUE stands for LET x == v IN e(x)),  *)
(* which makes TLC compute it once.                                        *)
(***************************************************************************)

\* await self.__get_...(session, key), called by the innermost frame of stack
Calling(a, d, stack, fn, key) ==
    [api |-> a, disk |-> d, stack |-> stack, status |-> "calling",
     value |-> <<fn, key>>, err |-> None]

\* return value, to the innermost frame of stack
Returning(a, d, stack, value) ==
    [api |-> a, disk |-> d, stack |-> stack, status |-> "returning",
     value |-> Some(value), err |-> None]

Suspended(a, d, stack) ==
    [api |-> a, disk |-> d, stack |-> stack, status |-> "suspended",
     value |-> None, err |-> None]

Returned(a, d, value) ==
    [api |-> a, disk |-> d, stack |-> <<>>, status |-> "returned",
     value |-> Some(value), err |-> None]

Raised(a, d, err) ==
    [api |-> a, disk |-> d, stack |-> <<>>, status |-> "raised",
     value |-> None, err |-> Some(err)]

Frame(fn, key, stage, hold) == [fn |-> fn, key |-> key, stage |-> stage, hold |-> hold]

Top(stack) == stack[Len(stack)]
Rest(stack) == SubSeq(stack, 1, Len(stack) - 1)

\* Variants of the expiry test: one that ends the lifetime an hour early,
\* one that reads the other table of durations.
ExpiredAtLimit(cached_at, cache, t) == t >= cached_at + CACHE_DURATION[cache]

ExpiredByCooldown(cached_at, cache, t) ==
    t > cached_at + CACHE_PURGE_COOLDOWN[cache]

\* now > cached_at + self.__CACHE_DURATION[cache]
Expired(cached_at, cache, t) == t > cached_at + CACHE_DURATION[cache]

\* key not in table or the entry has expired: the test that opens every
\* keyed fetch (lines 560-565, 609-614, 655-660, 782-787, 816-821, 859-863)
MustFetch(table, key, cache, t) ==
    key \notin DOMAIN table \/ Expired(table[key][2], cache, t)

\* the test of the two tuple-shaped caches and the two markers
\* (lines 527-532, 691-696, 734-739); x is None or <<.., cached_at>>
MustFetchAll(cached_at, cache, t) ==
    cached_at = None \/ Expired(cached_at[1], cache, t)

\* f"{self._base_url}{image["image_url"]}" for both URLs
AbsoluteUrls(image) ==
    [image EXCEPT !.image_url = base_url \o @, !.thumb_url = base_url \o @]

\* A sequence holding each element of the set once (the order in which a
\* dict is iterated is not modelled).
RECURSIVE SetToSeq(_)
SetToSeq(S) ==
    IF S = {} THEN <<>>
    ELSE LET x == CHOOSE x \in S : TRUE IN <<x>> \o SetToSeq(S \ {x})

\* A variant of the list comprehension without its filter.
NamedImagesUnfiltered(a) ==
    LET keys == SetToSeq(DOMAIN a.cached_images)
    IN  [n \in DOMAIN keys |-> a.cached_images[keys[n]][1]]

\* [j[0] for i, j in self.__cached_images.items() if i is not None]
NamedImages(a) ==
    LET keys == SetToSeq(DOMAIN a.cached_images \ {NoneKey})
    IN  [n \in DOMAIN keys |-> a.cached_images[keys[n]][1]]

\* list(self.__cached_chapters[0].values())
ChapterList(a) ==
    LET keys == SetToSeq(DOMAIN a.cached_chapters[1])
    IN  [n \in DOMAIN keys |-> a.cached_chapters[1][keys[n]]]

\* The loop of __get_all_images (lines 707-712) from item n of images.
RECURSIVE StoreImages(_, _, _, _)
StoreImages(table, images, n, cache_time) ==
    IF n > Len(images) THEN table
    ELSE StoreImages(Update(table, images[n].name,
                            <<ImageFromObj(AbsoluteUrls(images[n])), cache_time>>),
                     images, n + 1, cache_time)

\* The dict comprehension of lines 751-754 from item n of chapters_list:
\* [names, dict], names being the keys in the order of their insertion.
RECURSIVE BuildChapters(_, _, _, _)
BuildChapters(names, chapters, chapters_list, n) ==
    IF n > Len(chapters_list) THEN [names |-> names, chapters |-> chapters]
    ELSE LET chapter == chapters_list[n]
         IN  BuildChapters(IF chapter.name \in DOMAIN chapters THEN names
                           ELSE Append(names, chapter.name),
                           Update(chapters, chapter.name, ChapterFromObj(chapter)),
                           chapters_list, n + 1)

\* A variant of the inner loop that stores every record, solved or not.
RECURSIVE StoreRecordsUnsolvedToo(_, _, _, _)
StoreRecordsUnsolvedToo(table, records, n, cache_time) ==
    IF n > Len(records) THEN table
    ELSE StoreRecordsUnsolvedToo(Update(table, records[n].name,
                                        <<records[n], cache_time>>),
                                 records, n + 1, cache_time)

\* The inner loop of lines 759-763 from record n of one chapter.
RECURSIVE StoreRecords(_, _, _, _)
StoreRecords(table, records, n, cache_time) ==
    IF n > Len(records) THEN table
    ELSE StoreRecords(IF records[n].solved
                      THEN Update(table, records[n].name, <<records[n], cache_time>>)
                      ELSE table,
                      records, n + 1, cache_time)

\* A variant of StoreSingleImage that stores the image under the key it
\* was asked for only.
StoreSingleImageOnce(a, image, image_metadata, t) ==
    [a EXCEPT !.cached_images =
       Update(@, image, <<ImageFromObj(image_metadata), t>>)]

\* The two updates of __get_single_image (lines 578-594): under the key
\* asked for, and for the key None also under the name of the image.
StoreSingleImage(a, image, image_metadata, t) ==
    LET a1 == [a EXCEPT !.cached_images =
                 Update(@, image, <<ImageFromObj(image_metadata), t>>)]
    IN  IF image = NoneKey
        THEN [a1 EXCEPT !.cached_images =
                Update(@, a1.cached_images[image][1].name,
                       <<ImageFromObj(image_metadata), t>>)]
        ELSE a1

\* A variant of StoreChapterRecords that stores the records of one
\* chapter only.
StoreFirstChapterRecords(table, names, chapters, n, cache_time) ==
    IF n > Len(names) THEN table
    ELSE StoreRecords(table, chapters[names[n]].records, 1, cache_time)

\* The outer loop of lines 758-763 from chapter n of chapters.values().
RECURSIVE StoreChapterRecords(_, _, _, _, _)
StoreChapterRecords(table, names, chapters, n, cache_time) ==
    IF n > Len(names) THEN table
    ELSE StoreChapterRecords(
             StoreRecords(table, chapters[names[n]].records, 1, cache_time),
             names, chapters, n + 1, cache_time)

\* A variant of the list of search types that lets the type "text" pass.
ValidSearchTypesWithText ==
    { <<"image">>, <<"episodic-item">>, <<"episodic-line">>, <<"text">> }

\* the list of lines 855-857
ValidSearchTypes == { <<"image">>, <<"episodic-item">>, <<"episodic-line">> }

RECURSIVE SearchLoop(_, _, _, _, _, _, _)

\* A variant of Finish in which the save of the record contents yields
\* and a purge of them runs before the return statement.
FinishYielding(a, d, stack, cache, value, t) ==
    CHOOSE r \in
        {IF saved.raised THEN Raised(a, saved.disk, saved.err[1])
         ELSE Returning(IF cache = RECORD_CONTENTS
                        THEN purge_cache(a, cache, TRUE, t).api ELSE a,
                        saved.disk, stack, value) :
            saved \in {save_cache(a, d, cache)}} : TRUE

\* await self.__save_cache(cache), then the return statement of the fetch
Finish(a, d, stack, cache, value, t) ==
    CHOOSE r \in
        {IF saved.raised THEN Raised(a, saved.disk, saved.err[1])
         ELSE Returning(a, saved.disk, stack, value) :
            saved \in {save_cache(a, d, cache)}} : TRUE

\* A variant of SearchLoop that fetches the record text for every result
\* with a line index, whether its record is solved or not.
SearchLoopUnsolvedToo(a, d, rest, key, search_results, i, t) ==
    IF i > Len(search_results)
    THEN LET a1 == [a EXCEPT !.cached_search_results =
                      Update(@, key,
                             <<[n \in DOMAIN search_results |->
                                   SearchResultFromObj(search_results[n])], t>>)]
         IN  Finish(a1, d, rest, SEARCH_RESULTS, a1.cached_search_results[key][1], t)
    ELSE LET r == search_results[i]
             r1 == IF r.image # None
                   THEN [r EXCEPT !.image = Some(AbsoluteUrls(r.image[1]))]
                   ELSE r
             results1 == [search_results EXCEPT ![i] = r1]
         IN  IF r1.record_line_index # None
             THEN Calling(a, d,
                        Append(rest, Frame("domain_search", key, "record_line",
                                           [search_results |-> results1, i |-> i])),
                        "record_text", r1.record[1].name)
             ELSE SearchLoop(a, d, rest, key, results1, i + 1, t)

\* The loop over search_results of __get_domain_search (lines 873-903)
\* from item i, with rest the frames of the callers.
SearchLoop(a, d, rest, key, search_results, i, t) ==
    IF i > Len(search_results)
    THEN LET a1 == [a EXCEPT !.cached_search_results =
                      Update(@, key,
                             <<[n \in DOMAIN search_results |->
                                   SearchResultFromObj(search_results[n])], t>>)]
         IN  Finish(a1, d, rest, SEARCH_RESULTS, a1.cached_search_results[key][1], t)
    ELSE LET r == search_results[i]
             r1 == IF r.image # None
                   THEN [r EXCEPT !.image = Some(AbsoluteUrls(r.image[1]))]
                   ELSE r
             results1 == [search_results EXCEPT ![i] = r1]
         IN  IF r1.record_line_index # None /\ r1.record[1].solved
             THEN Calling(a, d,
                        Append(rest, Frame("domain_search", key, "record_line",
                                           [search_results |-> results1, i |-> i])),
                        "record_text", r1.record[1].name)
             ELSE SearchLoop(a, d, rest, key, results1, i + 1, t)

\* A call of the private fetch fn(key) at time t, made by the innermost
\* frame of stack (by the caller of the API when stack is empty): the
\* freshness test, and on a miss everything up to the first request.
Enter(a, d, stack, fn, key, t) ==
    CASE fn = "all_news" ->
            IF MustFetchAll(IF a.cached_news_items = None THEN None
                            ELSE Some(a.cached_news_items[2]), NEWS_ITEMS, t)
            THEN Suspended(a, d, Append(stack, Frame(fn, key, "all_news", None)))
            ELSE Returning(a, d, stack, a.cached_news_items[1])
      [] fn = "single_image" ->
            IF MustFetch(a.cached_images, key, IMAGES, t)
            THEN Suspended(a, d, Append(stack, Frame(fn, key, "single_image", None)))
            ELSE Returning(a, d, stack, a.cached_images[key][1])
      [] fn = "image_contents" ->
            IF MustFetch(a.cached_image_contents, key, IMAGE_CONTENTS, t)
            THEN Calling(a, d, Append(stack, Frame(fn, key, "image_metadata", None)),
                       "single_image", key)
            ELSE Returning(a, d, stack, a.cached_image_contents[key][1])
      [] fn = "image_description" ->
            IF MustFetch(a.cached_image_descriptions, key, IMAGE_DESCRIPTIONS, t)
            THEN Suspended(a, d, Append(stack, Frame(fn, key, "image_description", None)))
            ELSE Returning(a, d, stack, a.cached_image_descriptions[key][1])
      [] fn = "all_images" ->
            IF MustFetchAll(a.last_all_images_cache, IMAGES, t)
            THEN Suspended(a, d, Append(stack, Frame(fn, key, "all_images", None)))
            ELSE Returning(a, d, stack, NamedImages(a))
      [] fn = "full_episodic" ->
            IF MustFetchAll(a.last_full_episodic_cache, CHAPTERS, t)
            THEN Suspended(a, d, Append(stack, Frame(fn, key, "full_episodic", None)))
            ELSE IF a.cached_chapters = None
            THEN Raised(a, d, "TypeError")
            ELSE Returning(a, d, stack, ChapterList(a))
      [] fn = "single_record" ->
            IF MustFetch(a.cached_records, key, RECORDS, t)
            THEN Suspended(a, d, Append(stack, Frame(fn, key, "single_record", None)))
            ELSE Returning(a, d, stack, a.cached_records[key][1])
      [] fn = "record_text" ->
            IF MustFetch(a.cached_record_contents, key, RECORD_CONTENTS, t)
            THEN Suspended(a, d, Append(stack, Frame(fn, key, "record_text", None)))
            ELSE Returning(a, d, stack, a.cached_record_contents[key][1])
      [] fn = "get_single_image" ->
            \* the public get_single_image (lines 428-430)
            Calling(a, d, Append(stack, Frame(fn, key, "image_info", None)),
                  "single_image", key)
      [] fn = "domain_search" ->
            IF key[2] \notin ValidSearchTypes
            THEN Raised(a, d, "InvalidSearchTypeError")
            ELSE IF MustFetch(a.cached_search_results, key, SEARCH_RESULTS, t)
            THEN Suspended(a, d, Append(stack, Frame(fn, key, "domain_search", None)))
            ELSE Returning(a, d, stack, a.cached_search_results[key][1])

\* The fetch called by the innermost frame of stack returned value: that
\* frame goes on from its await.  With no frame left the value is the
\* result of the API call.
Resume(a, d, stack, value, t) ==
    IF stack = <<>> THEN Returned(a, d, value)
    ELSE LET f == Top(stack)
             rest == Rest(stack)
         IN
      CASE f.fn = "get_single_image" /\ f.stage = "image_info" ->
             Calling(a, d, Append(rest, Frame(f.fn, f.key, "image_contents", value)),
                   "image_contents", f.key)
        [] f.fn = "get_single_image" /\ f.stage = "image_contents" ->
             Returning(a, d, rest, <<f.hold, value>>)
        [] f.fn = "image_contents" /\ f.stage = "image_metadata" ->
             \* lines 615-621: image_req = await session.get(image_url)
             Suspended(a, d, Append(rest, Frame(f.fn, f.key, "image_url", value)))
        [] f.fn = "image_description" /\ f.stage = "image_title" ->
             \* lines 668-681
             LET image_description ==
                     [description |-> f.hold.description, title |-> value.title]
                 a1 == [a EXCEPT !.cached_image_descriptions =
                          Update(@, f.key,
                                 <<ImageDescriptionFromObj(image_description), t>>)]
             IN  Finish(a1, d, rest, IMAGE_DESCRIPTIONS,
                        a1.cached_image_descriptions[f.key][1], t)
        [] f.fn = "record_text" /\ f.stage = "record_title" ->
             \* lines 828-839
             LET a1 == [a EXCEPT !.cached_record_contents =
                          Update(@, f.key,
                                 <<RecordTextFromObj(value.title, f.hold), t>>)]
             IN  Finish(a1, d, rest, RECORD_CONTENTS,
                        a1.cached_record_contents[f.key][1], t)
        [] f.fn = "domain_search" /\ f.stage = "record_line" ->
             \* lines 884-890: lines[line_index], an IndexError when the
             \* text has no such line
             LET i == f.hold.i
                 r == f.hold.search_results[i]
                 line_index == r.record_line_index[1]
             IN  IF line_index + 1 \notin DOMAIN value.lines
                 THEN Raised(a, d, "IndexError")
                 ELSE SearchLoop(a, d, rest, f.key,
                                 [f.hold.search_results EXCEPT
                                    ![i].record_line = Some(value.lines[line_index + 1])],
                                 i + 1, t)

\* The request of the innermost frame of stack was answered with payload
\* (a successful response): the frame goes on from its await.
Deliver(a, d, stack, payload, t) ==
    LET f == Top(stack)
        rest == Rest(stack)
    IN
    CASE f.stage = "all_news" ->
           \* lines 538-548
           LET news_items == [i \in DOMAIN payload.items |->
                                 NewsEntryFromObj(payload.items[i])]
               a1 == [a EXCEPT !.cached_news_items = <<news_items, t>>]
           IN  Finish(a1, d, rest, NEWS_ITEMS, a1.cached_news_items[1], t)
      [] f.stage = "single_image" ->
           \* lines 570-597
           LET a2 == StoreSingleImage(a, f.key, AbsoluteUrls(payload), t)
           IN  Finish(a2, d, rest, IMAGES, a2.cached_images[f.key][1], t)
      [] f.stage = "image_url" ->
           \* line 622: self.__raise_for_status is defined nowhere in the
           \* class, so the attribute lookup raises
           Raised(a, d, "AttributeError")
      [] f.stage = "image_description" ->
           \* lines 666-668
           Calling(a, d, Append(rest, Frame(f.fn, f.key, "image_title", payload)),
                 "single_image", f.key)
      [] f.stage = "all_images" ->
           \* lines 702-722
           LET images == payload.images
               cache_time == t
               a1 == purge_cache(a, IMAGES, TRUE, t).api
               a2 == [a1 EXCEPT !.cached_images =
                        StoreImages(@, images, 1, cache_time)]
           IN  IF DOMAIN a2.cached_images = {}
               THEN Raised(a2, d, "StopIteration")
               ELSE LET \* next(iter(values())): the entry of the key that was
                        \* inserted first, the name of the first image
                        a3 == [a2 EXCEPT
                                 !.cached_images =
                                     Update(@, NoneKey, @[images[1].name]),
                                 !.last_all_images_cache = Some(cache_time)]
                    IN  CHOOSE r \in
                            {Finish(a4, d, rest, IMAGES, NamedImages(a4), t) :
                                a4 \in {a3}} : TRUE
      [] f.stage = "full_episodic" ->
           \* lines 745-770
           LET chapters_list == payload.chapters
               cache_time == t
               a1 == purge_cache(a, CHAPTERS, TRUE, t).api
               a2 == purge_cache(a1, RECORDS, TRUE, t).api
               built == BuildChapters(<<>>, EmptyDict, chapters_list, 1)
               a3 == [a2 EXCEPT
                        !.cached_chapters = <<built.chapters, cache_time>>,
                        !.cached_records =
                            StoreChapterRecords(@, built.names, built.chapters, 1,
                                                cache_time),
                        !.last_full_episodic_cache = Some(cache_time)]
           IN  CHOOSE r \in
                   {IF saved.raised THEN Raised(a4, saved.disk, saved.err[1])
                    ELSE Finish(a4, saved.disk, rest, RECORDS, ChapterList(a4), t) :
                       <<a4, saved>> \in
                           {<<a4, save_cache(a4, d, CHAPTERS)>> : a4 \in {a3}}} : TRUE
      [] f.stage = "single_record" ->
           \* lines 793-804
           LET a1 == [a EXCEPT !.cached_records =
                        Update(@, f.key, <<RecordFromObj(payload), t>>)]
           IN  Finish(a1, d, rest, RECORDS, a1.cached_records[f.key][1], t)
      [] f.stage = "record_text" ->
           \* lines 827-828
           Calling(a, d, Append(rest, Frame(f.fn, f.key, "record_title", payload)),
                 "single_record", f.key)
      [] f.stage = "domain_search" ->
           \* lines 871-873
           SearchLoop(a, d, rest, f.key, payload.results, 1, t)

\* A segment taken to its end: the next request, a return or an exception.
RECURSIVE Run(_, _)
Run(r, t) ==
    CHOOSE end \in
        {CASE r0.status = "calling" ->
                Run(Enter(r0.api, r0.disk, r0.stack, r0.value[1], r0.value[2], t), t)
           [] r0.status = "returning" ->
                Run(Resume(r0.api, r0.disk, r0.stack, r0.value[1], t), t)
           [] OTHER -> r0 : r0 \in {r}} : TRUE

-----------------------------------------------------------------------------
(* The remote API: what a successful response to each request may hold *)

ImageNames == {"a", "b"}
RecordNames == {"r1", "r2"}
ChapterNames == {"c1", "c2"}
Titles == {"t1", "t2"}

ImageObj(name, title) ==
    [name |-> name, title |-> title,
     image_url |-> "/serve/image/" \o name, thumb_url |-> "/serve/thumb/" \o name]

RecordObj(name, title, solved) == [name |-> name, title |-> title, solved |-> solved]

NewsResponses ==
    { [items |-> <<[title |-> "n1"]>>],
      [items |-> <<[title |-> "n2"], [title |-> "n1"]>>] }

\* single_image answers with the named image, or with the image of the
\* day when no name is given
SingleImageResponses(key) ==
    IF key = NoneKey THEN {ImageObj(n, ti) : n \in ImageNames, ti \in Titles}
    ELSE {ImageObj(key, ti) : ti \in Titles}

ImageDescriptionResponses == { [description |-> "d1"], [description |-> "d2"] }

ImageLists ==
    {<<>>}
    \cup {<<ImageObj(n, "t1")>> : n \in ImageNames}
    \cup {<<ImageObj(n, "t1"), ImageObj(m, ti)>> :
            n \in ImageNames, m \in ImageNames, ti \in Titles}

AllImagesResponses == {[images |-> l] : l \in ImageLists}

RecordLists ==
    {<<>>} \cup {<<RecordObj(n, "t1", sv)>> : n \in RecordNames, sv \in BOOLEAN}

ChapterObjs == {[name |-> n, records |-> rl] : n \in ChapterNames, rl \in RecordLists}

FullEpisodicResponses ==
    {[chapters |-> l] :
        l \in {<<>>} \cup {<<c>> : c \in ChapterObjs}
              \cup {<<c1, c2>> : c1 \in ChapterObjs, c2 \in ChapterObjs}}

SingleRecordResponses(key) == {RecordObj(key, ti, TRUE) : ti \in Titles}

RecordTextResponses == { [lines |-> <<"l1">>], [lines |-> <<"l1", "l2">>] }

SearchResultObj(type, image, record, index) ==
    [type |-> type, image |-> image, record |-> record,
     record_line_index |-> index, record_line |-> None]

DomainSearchResponses(key) ==
    IF key[2] = <<"image">>
    THEN { [results |-> <<>>],
           [results |-> <<SearchResultObj("image", Some(ImageObj("a", "t1")),
                                          None, None)>>] }
    ELSE IF key[2] = <<"episodic-item">>
    THEN { [results |-> <<SearchResultObj("episodic-item", None,
                                          Some(RecordObj("r1", "t1", TRUE)), None)>>] }
    ELSE { [results |-> <<SearchResultObj("episodic-line", None,
                                          Some(RecordObj("r1", "t1", TRUE)), Some(0))>>],
           [results |-> <<SearchResultObj("episodic-line", None,
                                          Some(RecordObj("r2", "t1", FALSE)), Some(0)),
                          SearchResultObj("episodic-line", None,
                                          Some(RecordObj("r1", "t1", TRUE)), Some(1))>>] }

\* The successful responses to the request the frame f is waiting for.
Responses(f) ==
    CASE f.stage = "all_news" -> NewsResponses
      [] f.stage = "single_image" -> SingleImageResponses(f.key)
      [] f.stage = "image_url" -> {"png"}
      [] f.stage = "image_description" -> ImageDescriptionResponses
      [] f.stage = "all_images" -> AllImagesResponses
      [] f.stage = "full_episodic" -> FullEpisodicResponses
      [] f.stage = "single_record" -> SingleRecordResponses(f.key)
      [] f.stage = "record_text" -> RecordTextResponses
      [] f.stage = "domain_search" -> DomainSearchResponses(f.key)

\* the cache type a fetch reads and fills
CacheOf(op) ==
    CASE op = "all_news" -> NEWS_ITEMS
      [] op = "single_image" -> IMAGES
      [] op = "image_description" -> IMAGE_DESCRIPTIONS
      [] op = "single_record" -> RECORDS
      [] op = "record_text" -> RECORD_CONTENTS
      [] op = "domain_search" -> SEARCH_RESULTS
      [] op = "all_images" -> IMAGES
      [] op = "full_episodic" -> CHAPTERS
      [] op = "get_single_image" -> IMAGES
      [] op = "image_contents" -> IMAGE_CONTENTS

-----------------------------------------------------------------------------
(* State *)

Callers == {"c1", "c2"}

Idle == [op |-> "idle", key |-> None, stack |-> <<>>, nreq |-> 0]
IsIdle(c) == calls[c].op = "idle"

\* The last thing that happened: a call, a response (recv is the decoded
\* body), a transport failure or a purge, with what it returned or raised.
Event(kind, caller, op, key, force, recv, status, value, err, nreq, at) ==
    [kind |-> kind, caller |-> caller, op |-> op, key |-> key, force |-> force,
     recv |-> recv, status |-> status, value |-> value, err |-> err,
     nreq |-> nreq, at |-> at]

NoEvent == Event("none", "", "", None, FALSE, None, "", None, None, 0, 0)

EmptyDisk == <<>>

\* A fetch run from its call to its end, its requests answered at once
\* with the payloads given: the segment that ends it.
RECURSIVE Drive(_, _, _)
Drive(r, payloads, t) ==
    CHOOSE end \in
        {IF r0.status # "suspended" THEN r0
         ELSE Drive(Run(Deliver(r0.api, r0.disk, r0.stack, Head(payloads), t), t),
                    Tail(payloads), t) : r0 \in {r}} : TRUE

\* The fetches of fetches[n..] run one after the other at time t.
RECURSIVE RunFetches(_, _, _, _, _)
RunFetches(a, d, fetches, n, t) ==
    IF n > Len(fetches) THEN [api |-> a, disk |-> d]
    ELSE CHOOSE end \in
             {RunFetches(r.api, r.disk, fetches, n + 1, t) :
                 r \in {Drive(Run(Calling(a, d, <<>>, fetches[n][1], fetches[n][2]), t),
                              fetches[n][3], t)}} : TRUE

\* Files left under __apicache__/ by an earlier run for the two caches
\* that only __load_cache fills: image contents and full record contents.
PriorApi ==
    [NewApi EXCEPT
       !.cached_image_contents = ("a" :> <<<<"png-a", "thumb-a">>, 0>>),
       !.cached_full_record_contents =
           <<("r1" :> [title |-> "t1", lines |-> <<"l1">>]), 0>>]

PriorFiles ==
    save_cache(PriorApi, save_cache(PriorApi, EmptyDisk, IMAGE_CONTENTS).disk,
               FULL_RECORD_CONTENTS).disk

\* The fetches of an earlier run of the program, which filled every other
\* cache at time 0 and saved it.
PriorFetches ==
    << <<"all_news", None, <<[items |-> <<[title |-> "n1"]>>]>> >>,
       <<"all_images", None, <<[images |-> <<ImageObj("a", "t1")>>]>> >>,
       <<"image_description", "a", <<[description |-> "d1"]>> >>,
       <<"full_episodic", None,
         <<[chapters |-> <<[name |-> "c1",
                            records |-> <<RecordObj("r1", "t1", TRUE)>>]>>]>> >>,
       <<"record_text", "r1", <<[lines |-> <<"l1">>]>> >>,
       <<"domain_search", <<(<<"f">>), (<<"image">>)>>, <<[results |-> <<>>]>> >> >>

\* After them image descriptions were purged and fetched again.
PriorDisk ==
    LET w1 == RunFetches(load_all_cache(NewApi, PriorFiles), PriorFiles,
                         PriorFetches, 1, 0)
        a2 == purge_cache(w1.api, IMAGE_DESCRIPTIONS, FALSE, 0).api
    IN  RunFetches(a2, w1.disk,
                   << <<"image_description", "a", <<[description |-> "d2"]>> >> >>,
                   1, 0).disk

InitialDisks == {EmptyDisk, PriorDisk}

\* The module-level FractalthornsAPI(): __init__ ends with __load_all_cache.
\* The process starts on an empty cache directory, or on the files an
\* earlier run left.
Init ==
    /\ disk \in InitialDisks
    /\ api = load_all_cache(NewApi, disk)
    /\ now = 0
    /\ calls = [c \in Callers |-> Idle]
    /\ ret = NoEvent
    /\ ops = 0

-----------------------------------------------------------------------------
(* Actions *)

\* The clock moves on to a later instant.
Tick(instants) ==
    /\ \E t \in instants : t > now /\ now' = t
    /\ UNCHANGED <<api, disk, calls, ret, ops>>

\* A variant of Settle in which the end of one call cancels the calls of
\* the other callers.
SettleCancelling(c, kind, op, key, recv, r, nreq) ==
    /\ api' = r.api
    /\ disk' = r.disk
    /\ IF r.status = "suspended"
       THEN calls' = [calls EXCEPT ![c] = [op |-> op, key |-> key,
                                            stack |-> r.stack, nreq |-> nreq + 1]]
       ELSE calls' = [o \in Callers |-> Idle]
    /\ ret' = Event(kind, c, op, key, FALSE, recv, r.status, r.value, r.err,
                    IF r.status = "suspended" THEN nreq + 1 ELSE nreq, now)

\* What a segment r run for caller c leaves behind.
Settle(c, kind, op, key, recv, r, nreq) ==
    /\ api' = r.api
    /\ disk' = r.disk
    /\ IF r.status = "suspended"
       THEN calls' = [calls EXCEPT ![c] = [op |-> op, key |-> key,
                                            stack |-> r.stack, nreq |-> nreq + 1]]
       ELSE calls' = [calls EXCEPT ![c] = Idle]
    /\ ret' = Event(kind, c, op, key, FALSE, recv, r.status, r.value, r.err,
                    IF r.status = "suspended" THEN nreq + 1 ELSE nreq, now)

\* A variant of Call that coalesces requests: a call of a fetch another
\* caller is waiting for joins that caller's request and issues none.
CallCoalesced(c, fn, key, max) ==
    /\ IsIdle(c)
    /\ ops < max
    /\ ops' = ops + 1
    /\ IF \E o \in Callers : calls[o].op = fn /\ calls[o].key = key
       THEN \E o \in Callers :
               /\ calls[o].op = fn /\ calls[o].key = key
               /\ calls' = [calls EXCEPT ![c] = [calls[o] EXCEPT !.nreq = 0]]
               /\ ret' = Event("call", c, fn, key, FALSE, None, "suspended",
                               None, None, 0, now)
               /\ UNCHANGED <<api, disk>>
       ELSE \E r \in {Run(Calling(api, disk, <<>>, fn, key), now)} :
               Settle(c, "call", fn, key, None, r, 0)
    /\ UNCHANGED now

\* Caller c calls the fetch fn(key): it runs up to its first request, or
\* to its end when it needs none.
Call(c, fn, key, max) ==
    /\ IsIdle(c)
    /\ ops < max
    /\ ops' = ops + 1
    /\ \E r \in {Run(Calling(api, disk, <<>>, fn, key), now)} :
          Settle(c, "call", fn, key, None, r, 0)
    /\ UNCHANGED now

\* The request caller c is waiting for succeeds: the coroutine runs on to
\* its next request or to its end.
Respond(c) ==
    /\ ~IsIdle(c)
    /\ \E payload \in Responses(Top(calls[c].stack)) :
          \E r \in {Run(Deliver(api, disk, calls[c].stack, payload, now), now)} :
             Settle(c, "response", calls[c].op, calls[c].key, Some(payload),
                    r, calls[c].nreq)
    /\ UNCHANGED <<now, ops>>

\* A variant of Fail in which the fetch has force-purged its cache before
\* the request that failed.
FailPurging(c) ==
    /\ ~IsIdle(c)
    /\ Settle(c, "failure", calls[c].op, calls[c].key, None,
              Raised(purge_cache(api, CacheOf(calls[c].op), TRUE, now).api,
                     disk, "ClientError"),
              calls[c].nreq)
    /\ UNCHANGED <<now, ops>>

\* The request caller c is waiting for fails (connection error, timeout,
\* raise_for_status): no frame catches the exception.
Fail(c) ==
    /\ ~IsIdle(c)
    /\ Settle(c, "failure", calls[c].op, calls[c].key, None,
              Raised(api, disk, "ClientError"), calls[c].nreq)
    /\ UNCHANGED <<now, ops>>

\* purge_cache(cache, force_purge=force)
Purge(cache, force, max) ==
    /\ ops < max
    /\ ops' = ops + 1
    /\ \E r \in {purge_cache(api, cache, force, now)} :
           /\ api' = r.api
           /\ ret' = Event("purge", "", "purge_cache", cache, force, None,
                           IF r.raised THEN "raised" ELSE "returned",
                           None, r.err, 0, now)
    /\ UNCHANGED <<disk, now, calls>>

\* get_cached_items(cache, ignore_stale=ignore_stale)
Inspect(cache, ignore_stale) ==
    /\ \E r \in {get_cached_items(api, cache, ignore_stale, now)} :
           ret' = Event("inspect", "", "get_cached_items", cache, ignore_stale,
                        None, IF r.raised THEN "raised" ELSE "returned",
                        r.value, r.err, 0, now)
    /\ UNCHANGED <<api, disk, now, calls, ops>>

\* await self.__save_cache(cache), on the instance as it is
Save(cache, max) ==
    /\ ops < max
    /\ ops' = ops + 1
    /\ \E r \in {save_cache(api, disk, cache)} :
           /\ disk' = r.disk
           /\ ret' = Event("save", "", "__save_cache", cache, FALSE, None,
                           IF r.raised THEN "raised" ELSE "returned",
                           None, r.err, 0, now)
    /\ UNCHANGED <<api, now, calls>>

\* The end of FractalthornsAPI() on the files d at time t: when a load
\* raises, so does the constructor, and the program does not start.
Start(d, t) ==
    Event("restart", "", "__init__", None, FALSE, None,
          IF \E cache \in CacheTypes : LoadRaises(d, cache)
          THEN "raised" ELSE "returned",
          None,
          IF \E cache \in CacheTypes : LoadRaises(d, cache)
          THEN Some("IndexError") ELSE None,
          0, t)

\* The process ends, whatever its callers wait for, and is started again:
\* a new FractalthornsAPI() loads the files.  The event of a restart that
\* comes right after a purge that succeeded names its cache and its time.
Restart ==
    /\ api' = load_all_cache(NewApi, disk)
    /\ calls' = [c \in Callers |-> Idle]
    /\ ret' = [Start(disk, now) EXCEPT
                 !.recv = IF ret.kind = "purge" /\ ret.status = "returned"
                          THEN Some(<<ret.key, ret.at>>) ELSE None]
    /\ UNCHANGED <<disk, now, ops>>

\* the program runs: it has started and has not died
Running == ret.kind # "crash" /\ (ret.kind = "restart" => ret.status = "returned")

\* The request caller c is waiting for succeeds and the process dies in
\* the __save_cache that ends the fetch (a fetch with one request and
\* one save).  Nothing is left of the instance.
Crash(c) ==
    /\ ~IsIdle(c)
    /\ Len(calls[c].stack) = 1
    /\ Top(calls[c].stack).stage \in {"all_news", "single_image", "single_record"}
    /\ \E payload \in Responses(Top(calls[c].stack)) :
          \E r \in {Run(Deliver(api, disk, calls[c].stack, payload, now), now)} :
             /\ r.status = "returned"
             /\ \E d \in CrashedSaves(r.api, disk, CacheOf(calls[c].op)) :
                   disk' = d
             /\ ret' = Event("crash", c, calls[c].op, calls[c].key, FALSE,
                             Some(payload), "raised", None, None,
                             calls[c].nreq, now)
    /\ api' = NewApi
    /\ calls' = [o \in Callers |-> Idle]
    /\ UNCHANGED <<now, ops>>

-----------------------------------------------------------------------------
(* Specifications *)

\* Purges of every cache type, on a cold and on a filled cache, with one
\* fetch that fills a purged table again.  The instants are the ends of
\* the cooldowns (1, 3 and 24 hours) of purges made at 0 and at 1.
PurgeInstants == {1, 3, 24}

NextPurge ==
    \/ \E cache \in CacheTypes, force \in BOOLEAN : Purge(cache, force, MaxPurges)
    \/ Call("c1", "image_description", "a", MaxPurges)
    \/ Respond("c1")
    \/ Fail("c1")
    \/ Tick(PurgeInstants)

SpecPurge == Init /\ [][NextPurge]_vars

-----------------------------------------------------------------------------
(* Claims about purge_cache, under SpecPurge *)

Purgeable == CacheTypes \ {CACHE_METADATA}

\* this step is a call of purge_cache; ret' tells which
PurgeStep == ops' = ops + 1 /\ ret'.kind = "purge"

\* a purge record for cache exists and its cooldown has not run out at t
CooldownRunning(a, cache, t) ==
    /\ cache \in DOMAIN a.last_cache_purge
    /\ t < a.last_cache_purge[cache] + CACHE_PURGE_COOLDOWN[cache]

\* C3: a non-forced purge of D raises CachePurgeError "too soon" exactly
\* when a purge record for D exists and now < last_purge_at[D] +
\* cooldown[D]; the error carries last_purge_at[D] + cooldown[D]; the
\* failed attempt changes nothing (table, marker, purge record, files).
C3_CooldownExact ==
    [][(PurgeStep /\ ~ret'.force) =>
         LET D == ret'.key
             tooSoon == ret'.status = "raised" /\ ret'.err[2] = CACHE_PURGE
         IN  /\ tooSoon <=> CooldownRunning(api, D, now)
             /\ tooSoon =>
                  /\ ret'.err[3] =
                       Some(api.last_cache_purge[D] + CACHE_PURGE_COOLDOWN[D])
                  /\ api' = api
                  /\ disk' = disk]_vars

\* C3 witness: a non-forced purge of a filled domain was refused, later
\* than the purge that started the cooldown.
C3_Witness ==
    /\ ret.kind = "purge" /\ ~ret.force
    /\ ret.status = "raised" /\ ret.err[2] = CACHE_PURGE
    /\ ret.key = IMAGE_DESCRIPTIONS
    /\ api.cached_image_descriptions # EmptyDict
    /\ ret.at > api.last_cache_purge[ret.key]

\* C4: a forced purge of any purgeable domain succeeds, whatever the
\* purge record says, and last_purge_at[D] is then the time of that purge.
C4_ForcedPurge ==
    (ret.kind = "purge" /\ ret.force /\ ret.key \in Purgeable) =>
        /\ ret.status = "returned"
        /\ ret.key \in DOMAIN api.last_cache_purge
        /\ api.last_cache_purge[ret.key] = ret.at

\* C4 witness: image descriptions were purged at 0 in the earlier run; a
\* forced purge went through one hour into that cooldown of three, and
\* the record now holds its time.
C4_Witness ==
    /\ ret.kind = "purge" /\ ret.force /\ ret.status = "returned"
    /\ ret.key = IMAGE_DESCRIPTIONS /\ ret.at = 1 /\ ops = 1
    /\ disk # EmptyDisk

\* C5 as claimed: after a successful purge of D the table of D is empty
\* or absent, the marker of images / chapters is cleared, and
\* last_purge_at[D] is the time of the purge.
C5_PurgeClears ==
    (ret.kind = "purge" /\ ret.status = "returned") =>
        /\ Table(api, ret.key) = <<>>
        /\ ret.key = IMAGES => api.last_all_images_cache = None
        /\ ret.key = CHAPTERS => api.last_full_episodic_cache = None
        /\ api.last_cache_purge[ret.key] = ret.at

\* C6: a purge of the cache-metadata type raises CachePurgeError "not a
\* valid cache type" with or without force, changes nothing, and no purge
\* record for cache metadata ever exists.
C6_MetadataPurge ==
    /\ [](CACHE_METADATA \notin DOMAIN api.last_cache_purge)
    /\ [][(PurgeStep /\ ret'.key = CACHE_METADATA) =>
            /\ ret'.status = "raised"
            /\ ret'.err[2] = INVALID_CACHE
            /\ api' = api
            /\ disk' = disk]_vars

\* C6 witness: a forced purge of cache metadata was refused.
C6_Witness ==
    /\ ret.kind = "purge" /\ ret.force /\ ret.key = CACHE_METADATA
    /\ ret.status = "raised" /\ ret.err[2] = INVALID_CACHE
    /\ api.last_cache_purge # EmptyDict

\* C7: a purge of a domain whose table is already empty, forced or with
\* no cooldown running, succeeds, leaves the table empty and sets
\* last_purge_at[D] to the time of this purge.
C7_PurgeEmpty ==
    [][(/\ PurgeStep
        /\ ret'.key \in Purgeable
        /\ Table(api, ret'.key) = <<>>
        /\ (ret'.force \/ ~CooldownRunning(api, ret'.key, now))) =>
            /\ ret'.status = "returned"
            /\ Table(api', ret'.key) = <<>>
            /\ Get(api'.last_cache_purge, ret'.key) = Some(now)]_vars

\* C7 witness: on a cold cache one domain was purged twice, the second
\* time without force at 1, after its cooldown of one hour.
C7_Witness ==
    /\ disk = EmptyDisk /\ ops = 2
    /\ ret.kind = "purge" /\ ~ret.force /\ ret.status = "returned" /\ ret.at = 1
    /\ DOMAIN api.last_cache_purge = {ret.key}

\* C8: a purge of D, refused or not, leaves the table and the purge
\* record of every other domain as they were; and a non-forced purge of
\* D' with no cooldown of its own running succeeds whatever cooldowns run
\* on other domains.
C8_PurgeIndependent ==
    [][PurgeStep =>
         /\ \A D \in Purgeable \ {ret'.key} :
               /\ Table(api', D) = Table(api, D)
               /\ Get(api'.last_cache_purge, D) = Get(api.last_cache_purge, D)
         /\ (ret'.key \in Purgeable /\ ~CooldownRunning(api, ret'.key, now))
               => ret'.status = "returned"]_vars

\* C8 witness: a non-forced purge of news succeeded at 3 while the
\* cooldown of image contents, purged at 1, was still running, and the
\* record and the table of every other domain are those of the start.
C8_Witness ==
    /\ ret.kind = "purge" /\ ~ret.force /\ ret.status = "returned"
    /\ ret.key = NEWS_ITEMS /\ ret.at = 3
    /\ CooldownRunning(api, IMAGE_CONTENTS, now)
    /\ api.cached_record_contents # EmptyDict

-----------------------------------------------------------------------------
(* Fetches of single entries, under SpecFetch *)

\* The keyed and singleton fetches, on a cold and on a filled cache, with
\* forced purges of two of their domains.  The instants are the last
\* fresh hour (12) and the first stale hour (13) of an entry cached at 0
\* for 12 hours, and the first stale hour (73) of one cached for 72.
FetchInstants == {12, 13, 73}

ImageKeys == {NoneKey, "a"}
SearchKeys == { <<(<<"f">>), (<<"image">>)>>, <<(<<"f">>), (<<"episodic-line">>)>>,
                <<(<<"f">>), (<<"text">>)>> }

NextFetch ==
    \/ Call("c1", "all_news", None, MaxFetches)
    \/ \E key \in ImageKeys : Call("c1", "single_image", key, MaxFetches)
    \/ Call("c1", "image_description", "a", MaxFetches)
    \/ Call("c1", "single_record", "r1", MaxFetches)
    \/ Call("c1", "record_text", "r1", MaxFetches)
    \/ \E key \in SearchKeys : Call("c1", "domain_search", key, MaxFetches)
    \/ Respond("c1")
    \/ Fail("c1")
    \/ \E cache \in {IMAGES, RECORD_CONTENTS} : Purge(cache, TRUE, MaxFetches)
    \/ Tick(FetchInstants)

SpecFetch == Init /\ [][NextFetch]_vars

KeyedFetches ==
    {"all_news", "single_image", "image_description", "single_record",
     "record_text", "domain_search"}

TupleCaches == {NEWS_ITEMS, CHAPTERS, FULL_RECORD_CONTENTS}

\* the entry <<value, cached_at>> of key in the table of cache, if any
Entry(a, cache, key) ==
    IF cache \in TupleCaches
    THEN (IF Table(a, cache) = None THEN None ELSE Some(Table(a, cache)))
    ELSE Get(Table(a, cache), key)

\* this step is the call of a keyed or singleton fetch with a valid type
FetchCall ==
    /\ ops' = ops + 1
    /\ ret'.kind = "call"
    /\ ret'.op \in KeyedFetches
    /\ ret'.op = "domain_search" => ret'.key[2] \in ValidSearchTypes

\* C1: a keyed or singleton fetch whose entry exists with
\* now <= cached_at + ttl returns the stored value, issues no request and
\* leaves the tables, the markers, the purge map and the files unchanged.
C1_FreshHit ==
    [][FetchCall =>
         LET e == Entry(api, CacheOf(ret'.op), ret'.key)
         IN  (e # None /\ now <= e[1][2] + CACHE_DURATION[CacheOf(ret'.op)]) =>
                 /\ ret'.status = "returned"
                 /\ ret'.value = Some(e[1][1])
                 /\ ret'.nreq = 0
                 /\ api' = api
                 /\ disk' = disk]_vars

\* C1 witness: search results cached at 0 were returned at 12, the last
\* hour of their lifetime, from a cache loaded from its files.
C1_Witness ==
    /\ ret.kind = "call" /\ ret.op = "domain_search"
    /\ ret.status = "returned" /\ ret.nreq = 0 /\ ret.at = 12
    /\ api.cached_search_results[ret.key][2] = 0
    /\ ret.value = Some(api.cached_search_results[ret.key][1])
    /\ disk = PriorDisk

\* this step purges cache: purge_cache succeeded on it
Purged(cache) ==
    /\ ret'.kind = "purge" /\ ops' = ops + 1
    /\ ret'.key = cache /\ ret'.status = "returned"

\* C2: a fetch that went to the transport and succeeded leaves an entry
\* cached at that time t, not stale at t; while its domain is not purged
\* the entry stays, never with an earlier time; and a fetch of the key
\* at any now < cached_at + ttl is served from the cache.
C2_FreshWindow ==
    [][/\ (/\ ret'.kind = "response" /\ ret' # ret
           /\ ret'.op \in KeyedFetches
           /\ ret'.status = "returned") =>
              LET D == CacheOf(ret'.op)
                  e == Entry(api', D, ret'.key)
              IN  /\ ret'.nreq >= 1
                  /\ e # None
                  /\ e[1][2] = now
                  /\ ~Expired(e[1][2], D, now)
       /\ \A D \in Purgeable :
             ~Purged(D) =>
                IF D \in TupleCaches
                THEN Table(api, D) # None =>
                        /\ Table(api', D) # None
                        /\ Table(api', D)[2] >= Table(api, D)[2]
                ELSE \A k \in DOMAIN Table(api, D) :
                        /\ k \in DOMAIN Table(api', D)
                        /\ Table(api', D)[k][2] >= Table(api, D)[k][2]
       /\ FetchCall =>
             LET D == CacheOf(ret'.op)
                 e == Entry(api, D, ret'.key)
             IN  (e # None /\ now < e[1][2] + CACHE_DURATION[D]) =>
                     /\ ret'.status = "returned"
                     /\ ret'.nreq = 0
                     /\ ret'.value = Some(e[1][1])
                     /\ Entry(api', D, ret'.key) = e]_vars

\* C2 witness: on a cold cache a record was fetched from the transport at
\* 12 and returned from the cache at 13.
C2_Witness ==
    /\ api.cached_full_record_contents = None
    /\ ret.kind = "call" /\ ret.op = "single_record" /\ ret.key = "r1"
    /\ ret.status = "returned" /\ ret.nreq = 0 /\ ret.at = 13
    /\ api.cached_records["r1"][2] = 12

-----------------------------------------------------------------------------
(* The full-episodic fetch, under SpecEpisodic *)

\* Fetches of all chapters and of single records, on a cold and on a
\* filled cache; 12 is the last fresh hour and 13 the first stale hour of
\* what was cached at 0.
EpisodicInstants == {12, 13}

NextEpisodic ==
    \/ Call("c1", "full_episodic", None, MaxFetches)
    \/ \E key \in RecordNames : Call("c1", "single_record", key, MaxFetches)
    \/ Respond("c1")
    \/ Fail("c1")
    \/ Tick(EpisodicInstants)

SpecEpisodic == Init /\ [][NextEpisodic]_vars

\* the names of the records marked solved in a list of chapters
SolvedNames(chapters) ==
    UNION {{chapters[i].records[j].name :
               j \in {j \in DOMAIN chapters[i].records :
                         chapters[i].records[j].solved}} :
           i \in DOMAIN chapters}

\* the last event is a full-episodic fetch that went to the transport and
\* returned
EpisodicFetched ==
    /\ ret.kind = "response" /\ ret.op = "full_episodic"
    /\ ret.status = "returned" /\ ret.nreq = 1

\* C9: after a full-episodic fetch that went to the transport and
\* succeeded, the keys of the records table are exactly the names of the
\* solved records inside the returned chapters, each entry is cached at
\* the time the chapters are cached at, and that time is the
\* last-full-episodic marker.
C9_EpisodicRecords ==
    EpisodicFetched =>
        /\ DOMAIN api.cached_records = SolvedNames(ret.value[1])
        /\ api.cached_chapters # None
        /\ \A k \in DOMAIN api.cached_records :
              api.cached_records[k][2] = api.cached_chapters[2]
        /\ api.last_full_episodic_cache = Some(api.cached_chapters[2])
        /\ api.cached_chapters[2] = ret.at

\* C9 witness: the fetch returned a chapter with a solved record and an
\* unsolved r2, and replaced a records file that held r2 from an earlier
\* single-record fetch.
C9_Witness ==
    /\ EpisodicFetched
    /\ \E i \in DOMAIN ret.value[1] :
          \E j \in DOMAIN ret.value[1][i].records :
             /\ ret.value[1][i].records[j].name = "r2"
             /\ ~ret.value[1][i].records[j].solved
    /\ api.cached_records # EmptyDict
    /\ "r2" \notin DOMAIN api.cached_records
    /\ Exists(disk, CachePath(RECORDS) \o CACHE_BAK)
    /\ "r2" \in DOMAIN disk[CachePath(RECORDS) \o CACHE_BAK][1]

-----------------------------------------------------------------------------
(* The all-images fetch, under SpecImages *)

ImagesInstants == {12, 13}

NextImages ==
    \/ Call("c1", "all_images", None, MaxFetches)
    \/ \E key \in ImageNames \cup {NoneKey} :
          Call("c1", "single_image", key, MaxFetches)
    \/ \E key \in ImageNames : Call("c1", "image_contents", key, MaxFetches)
    \/ Respond("c1")
    \/ Fail("c1")
    \/ Tick(ImagesInstants)

SpecImages == Init /\ [][NextImages]_vars

\* the names of a list of images
Names(images) == {images[i].name : i \in DOMAIN images}

\* the last event is an all-images fetch that went to the transport,
\* whose response was images
ImagesFetched(images) ==
    /\ ret.kind = "response" /\ ret.op = "all_images"
    /\ ret.recv = Some([images |-> images])

\* C10: after an all-images fetch that went to the transport and returned
\* a non-empty list of distinctly named images, the keys of the images
\* table are the returned names and the sentinel key, the sentinel entry
\* is the entry of the first returned image, and the list handed back
\* holds each named image once and no duplicate for the sentinel.
C10_AllImages ==
    \A images \in ImageLists :
        (/\ ImagesFetched(images)
         /\ images # <<>>
         /\ Cardinality(Names(images)) = Len(images)) =>
            /\ ret.status = "returned"
            /\ DOMAIN api.cached_images = Names(images) \cup {NoneKey}
            /\ api.cached_images[NoneKey] = api.cached_images[images[1].name]
            /\ api.cached_images[NoneKey] =
                   <<ImageFromObj(AbsoluteUrls(images[1])), ret.at>>
            /\ Len(ret.value[1]) = Len(images)
            /\ \A n \in Names(images) :
                  Cardinality({i \in DOMAIN ret.value[1] :
                                  ret.value[1][i] = api.cached_images[n][1]}) = 1

\* C10 witness: the fetch returned image a alone and replaced an images
\* file that held image b and had b under the sentinel key.
C10_Witness ==
    /\ \E images \in ImageLists : ImagesFetched(images) /\ Names(images) = {"a"}
    /\ ret.status = "returned"
    /\ DOMAIN api.cached_images = {"a", NoneKey}
    /\ Exists(disk, CachePath(IMAGES) \o CACHE_BAK)
    /\ "b" \in DOMAIN disk[CachePath(IMAGES) \o CACHE_BAK][1]
    /\ disk[CachePath(IMAGES) \o CACHE_BAK][1][NoneToken][1].name = "b"

-----------------------------------------------------------------------------
(* Searches, under SpecSearch *)

\* The files of an earlier run whose search-results file also holds an
\* entry under the type "text", which no fetch stores.
SearchDisk ==
    WriteFile(PriorDisk, CachePath(SEARCH_RESULTS),
              Document(Update(PriorDisk[CachePath(SEARCH_RESULTS)][1],
                              <<"f", "|", "text">>, <<(<<>>), timestamp(0)>>)))

InitSearch ==
    /\ disk \in {EmptyDisk, SearchDisk}
    /\ api = load_all_cache(NewApi, disk)
    /\ now = 0
    /\ calls = [c \in Callers |-> Idle]
    /\ ret = NoEvent
    /\ ops = 0

\* a search term that holds the separator of the stored key
PipeKey == <<(<<"f", "|", "g">>), (<<"image">>)>>

\* Searches of every type and fetches of single images, on a cold cache
\* and on the files of SearchDisk, at the hours 0, 12 and 13, with
\* restarts of the process.
NextSearch ==
    \/ \E key \in SearchKeys \cup {PipeKey} :
          Call("c1", "domain_search", key, MaxFetches)
    \/ \E key \in ImageKeys : Call("c1", "single_image", key, MaxFetches)
    \/ Respond("c1")
    \/ Fail("c1")
    \/ Restart
    \/ Tick(EpisodicInstants)

SpecSearch == InitSearch /\ [][NextSearch]_vars

\* C11: a domain search whose type is none of image, episodic-item and
\* episodic-line raises InvalidSearchTypeError at its call: no request is
\* issued, no call is left waiting, and the tables, the markers, the
\* purge map and the files stay as they were, whether or not the tables
\* hold an entry under that term and type.
C11_InvalidSearchType ==
    [][(/\ ops' = ops + 1
        /\ ret'.kind = "call"
        /\ ret'.op = "domain_search"
        /\ ret'.key[2] \notin { <<"image">>, <<"episodic-item">>,
                                <<"episodic-line">> }) =>
            /\ ret'.status = "raised"
            /\ ret'.err = Some("InvalidSearchTypeError")
            /\ ret'.nreq = 0
            /\ api' = api
            /\ disk' = disk
            /\ calls' = calls]_vars

\* C11 witness: a search of type "text" was refused although the table,
\* loaded from its file, holds a fresh entry under that term and type.
C11_Witness ==
    /\ ret.kind = "call" /\ ret.op = "domain_search"
    /\ ret.key = <<(<<"f">>), (<<"text">>)>>
    /\ ret.status = "raised" /\ ret.err = Some("InvalidSearchTypeError")
    /\ ret.key \in DOMAIN api.cached_search_results
    /\ ~Expired(api.cached_search_results[ret.key][2], SEARCH_RESULTS, now)

-----------------------------------------------------------------------------
(* Two callers, under SpecRace *)

\* Two callers fetch the news and the record r1, on a cold and on a filled
\* cache whose entries of hour 0 are stale at 13; their requests are
\* answered in either order, at 13 or at 14.
RaceInstants == {13, 14}

NextRace ==
    \/ \E c \in Callers : Call(c, "all_news", None, MaxRaces)
    \/ \E c \in Callers : Call(c, "single_record", "r1", MaxRaces)
    \/ \E c \in Callers : Respond(c)
    \/ \E c \in Callers : Fail(c)
    \/ Tick(RaceInstants)

SpecRace == Init /\ [][NextRace]_vars

\* this step is a successful response to caller c that ends its call
Answered(c) ==
    /\ ~IsIdle(c) /\ calls'[c].op = "idle"
    /\ ret'.kind = "response" /\ ret'.caller = c

\* C12: a caller that waits for a response can always be answered,
\* whatever the other caller does; its answer ends its fetch with the
\* value it received, leaves the entry cached at the time of this
\* completion (so that after two overlapping fetches the entry carries
\* the time of the later completion), and leaves the call of the other
\* caller as it was.
C12_LastWriteWins ==
    /\ [](\A c \in Callers : ~IsIdle(c) => ENABLED Respond(c))
    /\ [][\A c \in Callers :
            (Answered(c) /\ ret'.op = "single_record") =>
                /\ ret'.status = "returned"
                /\ ret'.value = Some(RecordFromObj(ret'.recv[1]))
                /\ api'.cached_records[ret'.key] = <<ret'.value[1], now>>
                /\ \A o \in Callers \ {c} : calls'[o] = calls[o]]_vars

\* C12 witness: on a cold cache both callers asked for r1 before either
\* was answered; one was answered at 13 and the other at 14, and the
\* entry is the one of 14, over the one of 13 that the backup file shows.
C12_Witness ==
    /\ api.cached_full_record_contents = None
    /\ ops = 2
    /\ ret.kind = "response" /\ ret.op = "single_record"
    /\ ret.status = "returned" /\ ret.nreq = 1 /\ ret.at = 14
    /\ api.cached_records["r1"][2] = 14
    /\ Exists(disk, CachePath(RECORDS) \o CACHE_BAK)
    /\ disk[CachePath(RECORDS) \o CACHE_BAK][1]["r1"][2] = timestamp(13)
    /\ \A c \in Callers : IsIdle(c)

\* C13: a call of the news fetch that finds the news absent or stale
\* issues one request of its own, also while the other caller waits for
\* the same news; each answer ends its fetch after that one request and
\* saves the news (the file holds the table, the former file is the
\* backup); a call that finds the news fresh issues no request.
C13_NoCoalescing ==
    [][\A c \in Callers :
         /\ (/\ ops' = ops + 1 /\ ret'.kind = "call" /\ ret'.caller = c
             /\ ret'.op = "all_news") =>
               IF \/ api.cached_news_items = None
                  \/ now > api.cached_news_items[2] + CACHE_DURATION[NEWS_ITEMS]
               THEN /\ ret'.status = "suspended"
                    /\ ret'.nreq = 1
                    /\ calls'[c].nreq = 1
                    /\ Len(calls'[c].stack) = 1
                    /\ \A o \in Callers \ {c} : calls'[o] = calls[o]
               ELSE /\ ret'.status = "returned"
                    /\ ret'.nreq = 0
                    /\ disk' = disk
         /\ (Answered(c) /\ ret'.op = "all_news") =>
               /\ ret'.status = "returned"
               /\ ret'.nreq = 1
               /\ disk'[CachePath(NEWS_ITEMS)] =
                      Document(CacheContents(api', NEWS_ITEMS)[1])
               /\ Exists(disk, CachePath(NEWS_ITEMS)) =>
                      disk'[CachePath(NEWS_ITEMS) \o CACHE_BAK] =
                          disk[CachePath(NEWS_ITEMS)]]_vars

\* C13 witness: on a cold cache both callers asked for the news and were
\* answered, the news file was written twice (it has a backup), and a
\* third call was served from the cache with no request.
C13_Witness ==
    /\ api.cached_full_record_contents = None
    /\ ops = 3
    /\ ret.kind = "call" /\ ret.op = "all_news"
    /\ ret.status = "returned" /\ ret.nreq = 0
    /\ Exists(disk, CachePath(NEWS_ITEMS) \o CACHE_BAK)
    /\ disk[CachePath(NEWS_ITEMS)] # disk[CachePath(NEWS_ITEMS) \o CACHE_BAK]

\* the file of cache holds what __save_cache(cache) writes from a
Saved(a, d, cache) ==
    /\ CacheContents(a, cache) # None
    /\ Get(d, CachePath(cache)) = Some(Document(CacheContents(a, cache)[1]))

\* C14: when the process is started again, every cache other than image
\* contents whose file is the one __save_cache wrote from its table is
\* loaded with the same keys, values and cached_at (the sentinel key of
\* the images and search terms that hold "|" included), and the cache
\* metadata with the same markers and purge map.
C14_RoundTrip ==
    [][(ret'.kind = "restart" /\ now' = now) =>
          /\ ret'.status = "returned"
          /\ \A D \in CacheTypes \ {IMAGE_CONTENTS, CACHE_METADATA} :
                Saved(api, disk, D) => Table(api', D) = Table(api, D)
          /\ Saved(api, disk, CACHE_METADATA) =>
                /\ api'.last_all_images_cache = api.last_all_images_cache
                /\ api'.last_full_episodic_cache = api.last_full_episodic_cache
                /\ api'.last_cache_purge = api.last_cache_purge]_vars

\* C14 witness: a restart loaded the search results of a term that holds "|" and the image stored under
\* the sentinel key back from the files a cold start had written.
C14_Witness ==
    /\ ret.kind = "restart" /\ ret.status = "returned"
    /\ api.cached_full_record_contents = None
    /\ PipeKey \in DOMAIN api.cached_search_results
    /\ Len(api.cached_search_results[PipeKey][1]) = 1
    /\ api.cached_search_results[PipeKey][2] = 12
    /\ NoneKey \in DOMAIN api.cached_images
    /\ NoneToken \in DOMAIN disk[CachePath(IMAGES)][1]

-----------------------------------------------------------------------------
(* Crashes, restarts and damaged files, under SpecCrash *)

\* The files d with the file of cache damaged: "json" is a file that does
\* not parse, "field" one whose entries lack their timestamp, "name" a
\* cache-metadata file whose purge map holds a name that is no cache type.
Damaged(d, cache, flaw) ==
    LET doc == d[CachePath(cache)][1]
    IN  WriteFile(d, CachePath(cache),
           CASE flaw = "json" -> <<>>
             [] flaw = "field" ->
                  IF cache \in {NEWS_ITEMS, CHAPTERS, FULL_RECORD_CONTENTS}
                  THEN Document(<<doc[1]>>)
                  ELSE Document([i \in DOMAIN doc |-> <<doc[i][1]>>])
             [] flaw = "name" ->
                  Document([doc EXCEPT !.last_cache_purge =
                                          Update(@, "bogus", timestamp(0))]))

\* The cache directory at the start of the process: empty, left whole by
\* an earlier run, or with one file missing or damaged.
StartDisks ==
    {EmptyDisk, PriorDisk}
    \cup {[f \in DOMAIN PriorDisk \ {CachePath(D)} |-> PriorDisk[f]] :
             D \in {NEWS_ITEMS, RECORDS, CHAPTERS}}
    \cup {Damaged(PriorDisk, D, "json") :
             D \in {NEWS_ITEMS, RECORDS, CHAPTERS, CACHE_METADATA}}
    \cup {Damaged(PriorDisk, D, "field") : D \in {NEWS_ITEMS, RECORDS}}
    \cup {Damaged(PriorDisk, CACHE_METADATA, "name")}

InitCrash ==
    /\ disk \in StartDisks
    /\ api = load_all_cache(NewApi, disk)
    /\ now = 0
    /\ calls = [c \in Callers |-> Idle]
    /\ ret = Start(disk, 0)
    /\ ops = 0

\* Fetches of the news, of the record r1 and of an image, whose entries
\* of hour 0 are stale at 13, with crashes in their saves and restarts.
NextCrash ==
    \/ Running /\ Call("c1", "all_news", None, MaxFetches)
    \/ Running /\ Call("c1", "single_record", "r1", MaxFetches)
    \/ Running /\ Call("c1", "single_image", "a", MaxFetches)
    \/ Running /\ Respond("c1")
    \/ Running /\ Fail("c1")
    \/ Running /\ Crash("c1")
    \/ Restart
    \/ Tick({13})

SpecCrash == InitCrash /\ [][NextCrash]_vars

\* the file f holds a complete snapshot
Complete(d, f) == Exists(d, f) /\ d[f] # <<>>

\* C15: a crash in the save that ends a fetch leaves, for the file of the
\* fetched cache and for the cache-metadata file, a complete snapshot
\* under the main name or the snapshot that was there under the .bak
\* name, when the file held a complete snapshot before; a save that runs
\* to its end leaves the new table in the main file and the former
\* snapshot in the .bak file.
C15_BackupBeforeOverwrite ==
    [][/\ (ret'.kind = "crash" /\ ~IsIdle(ret'.caller)) =>
            \A f \in {CachePath(CacheOf(ret'.op)), CachePath(CACHE_METADATA)} :
               Complete(disk, f) =>
                  \/ Complete(disk', f)
                  \/ Get(disk', f \o CACHE_BAK) = Some(disk[f])
       /\ (/\ ret'.kind = "response" /\ ~IsIdle(ret'.caller)
           /\ ret'.status = "returned") =>
            LET f == CachePath(CacheOf(ret'.op))
            IN  /\ disk'[f] = Document(CacheContents(api', CacheOf(ret'.op))[1])
                /\ Complete(disk, f) =>
                       Get(disk', f \o CACHE_BAK) = Some(disk[f])]_vars

\* C15 witness: the process died with the new records file opened and
\* not written; the snapshot an earlier run had saved is the .bak file.
C15_Witness ==
    /\ ret.kind = "crash" /\ ret.op = "single_record"
    /\ Get(disk, CachePath(RECORDS)) = Some(<<>>)
    /\ Get(disk, CachePath(RECORDS) \o CACHE_BAK) =
           Some(PriorDisk[CachePath(RECORDS)])

\* C16: a complete snapshot of a cache on disk, under the main name or
\* the .bak name, is never lost: after every step of fetches, crashes in
\* a save and restarts, one of the two files is still complete.
C16_SnapshotKept ==
    [][\A D \in {NEWS_ITEMS, IMAGES, RECORDS, CACHE_METADATA} :
         (\/ Complete(disk, CachePath(D))
          \/ Complete(disk, CachePath(D) \o CACHE_BAK)) =>
             \/ Complete(disk', CachePath(D))
             \/ Complete(disk', CachePath(D) \o CACHE_BAK)]_vars

\* the file of cache is one __load_cache restores a table from
WellFormed(d, cache) ==
    /\ Complete(d, CachePath(cache))
    /\ ~LoadRaises(d, cache)
    /\ cache = CACHE_METADATA =>
          DOMAIN d[CachePath(cache)][1].last_cache_purge \subseteq CacheTypes

\* C17: the start of the process ends without an exception whatever the
\* files are; every cache whose file is well formed holds what its file
\* holds, and every cache whose file is missing or damaged is as in a
\* new instance.
C17_LoadAllCompletes ==
    ret.kind = "restart" =>
       /\ ret.status = "returned"
       /\ \A D \in CacheTypes \ {IMAGE_CONTENTS, CACHE_METADATA} :
             IF WellFormed(disk, D) THEN Saved(api, disk, D)
             ELSE Table(api, D) = Table(NewApi, D)
       /\ IF WellFormed(disk, CACHE_METADATA) THEN Saved(api, disk, CACHE_METADATA)
          ELSE /\ api.last_all_images_cache = None
               /\ api.last_full_episodic_cache = None
               /\ api.last_cache_purge = EmptyDict

-----------------------------------------------------------------------------
(* Saves of each cache type, under SpecSave *)

\* __save_cache applied to every cache type, on a cold and on a filled
\* cache, after purges that changed the purge map in memory only, and
\* restarts of the process on the files as they are.
NextSave ==
    \/ \E cache \in CacheTypes : Save(cache, MaxPurges)
    \/ \E cache \in CacheTypes, force \in BOOLEAN : Purge(cache, force, MaxPurges)
    \/ Restart
    \/ Tick(PurgeInstants)

SpecSave == Init /\ [][NextSave]_vars

\* C18: a save of a cache other than the cache metadata that ends leaves
\* a cache-metadata file that holds the two markers and the purge map of
\* the instance; a save of the cache metadata changes no file but the
\* metadata file and its backup.
C18_MetadataSaved ==
    [][(ret'.kind = "save" /\ ops' = ops + 1 /\ ret'.status = "returned") =>
          IF ret'.key = CACHE_METADATA
          THEN \A f \in DOMAIN disk \ {CachePath(CACHE_METADATA),
                                       CachePath(CACHE_METADATA) \o CACHE_BAK} :
                  Get(disk', f) = Some(disk[f])
          ELSE Saved(api', disk', CACHE_METADATA)]_vars

-----------------------------------------------------------------------------
(* Introspection, under SpecInspect *)

\* get_cached_items of every cache type, with and without stale entries,
\* on a cold and on a filled cache whose entries of hour 0 are stale at
\* 13, after fetches of records and of all images at 0 or 13 and after
\* purges of the images and the chapters.
NextInspect ==
    \/ \E cache \in CacheTypes, ignore_stale \in BOOLEAN : Inspect(cache, ignore_stale)
    \/ \E key \in RecordNames : Call("c1", "single_record", key, MaxFetches)
    \/ Call("c1", "all_images", None, MaxFetches)
    \/ Respond("c1")
    \/ Fail("c1")
    \/ \E cache \in {IMAGES, CHAPTERS} : Purge(cache, TRUE, MaxFetches)
    \/ Tick({13})

SpecInspect == Init /\ [][NextInspect]_vars

\* C19: get_cached_items of an entry-keyed cache raises nothing and leaves
\* the instance as it is; with ignore_stale it returns every entry, and
\* without it the entries with now <= cached_at + ttl, each as
\* (value, cached_at, cached_at + ttl).
C19_Introspection ==
    [][(/\ ret'.kind = "inspect" /\ now' = now
        /\ ret'.key \in {IMAGES, IMAGE_CONTENTS, IMAGE_DESCRIPTIONS, RECORDS,
                          RECORD_CONTENTS, SEARCH_RESULTS}) =>
          LET D == ret'.key
              kept == {i \in DOMAIN Table(api, D) :
                          \/ ret'.force
                          \/ now <= Table(api, D)[i][2] + CACHE_DURATION[D]}
          IN  /\ ret'.status = "returned"
              /\ ret'.value =
                     Some([i \in kept |->
                             <<Table(api, D)[i][1], Table(api, D)[i][2],
                               Table(api, D)[i][2] + CACHE_DURATION[D]>>])
              /\ api' = api]_vars

\* C20: get_cached_items of the cache metadata raises nothing in any
\* state; it returns each marker that is set as (time, time + ttl), a
\* marker that is not set as absent, and for every purge record the pair
\* (last_purge_at, last_purge_at + cooldown).
C20_MetadataIntrospection ==
    (ret.kind = "inspect" /\ ret.key = CACHE_METADATA) =>
       /\ ret.status = "returned"
       /\ ret.value =
              Some([last_all_images_cache |->
                       IF api.last_all_images_cache = None THEN None
                       ELSE <<api.last_all_images_cache[1],
                              api.last_all_images_cache[1] + CACHE_DURATION[IMAGES]>>,
                    last_full_episodic_cache |->
                       IF api.last_full_episodic_cache = None THEN None
                       ELSE <<api.last_full_episodic_cache[1],
                              api.last_full_episodic_cache[1]
                                  + CACHE_DURATION[CHAPTERS]>>,
                    last_cache_purge |->
                       [i \in DOMAIN api.last_cache_purge |->
                           <<api.last_cache_purge[i],
                             api.last_cache_purge[i] + CACHE_PURGE_COOLDOWN[i]>>]])

\* C21: get_cached_items of the news or of the chapters raises nothing
\* and leaves the instance as it is; it returns None when the table is
\* absent, or when now > cached_at + ttl and ignore_stale is not given,
\* and otherwise (value, cached_at, cached_at + ttl).
C21_SingletonIntrospection ==
    [][(/\ ret'.kind = "inspect" /\ now' = now
        /\ ret'.key \in {NEWS_ITEMS, CHAPTERS}) =>
          LET D == ret'.key
          IN  /\ ret'.status = "returned"
              /\ ret'.value =
                     IF \/ Table(api, D) = None
                        \/ (~ret'.force
                            /\ now > Table(api, D)[2] + CACHE_DURATION[D])
                     THEN None
                     ELSE Some(<<Table(api, D)[1], Table(api, D)[2],
                                 Table(api, D)[2] + CACHE_DURATION[D]>>)
              /\ api' = api]_vars

\* C21 witness: at 13 the news cached at 0 were asked for without
\* ignore_stale and None came back, the news still in their table.
C21_Witness ==
    /\ ret.kind = "inspect" /\ ret.key = NEWS_ITEMS
    /\ ~ret.force /\ ret.at = 13
    /\ ret.status = "returned" /\ ret.value = None
    /\ api.cached_news_items # None
    /\ api.cached_news_items[2] = 0

-----------------------------------------------------------------------------
(* The all-images and full-episodic fetches and the purges of their     *)
(* caches, under SpecForced                                              *)

\* Fetches of all images and of all chapters, which force-purge their
\* caches, and purges of those caches that a caller asks for, on a cold
\* and on a filled cache.  Hour 1 is the end of the cooldown of a purge
\* made at 0, and 13 the first stale hour of what was cached at 0.
NextForced ==
    \/ Call("c1", "all_images", None, MaxForced)
    \/ Call("c1", "full_episodic", None, MaxForced)
    \/ Respond("c1")
    \/ Fail("c1")
    \/ \E cache \in {IMAGES, CHAPTERS, RECORDS} : Purge(cache, FALSE, MaxForced)
    \/ Tick({1, 13})

SpecForced == Init /\ [][NextForced]_vars


\* C22: a fetch changes nothing before its request is answered, and when
\* the request fails the fetch ends there: it raises the failure to its
\* caller with no further request, and every table, both markers, the
\* purge map and every file are those of before the step.  A failed
\* all-images or full-episodic fetch so purges nothing.
C22_FailureLeavesCache ==
    [][/\ (/\ ops' = ops + 1 /\ ret'.kind = "call"
           /\ ret'.status = "suspended") =>
              /\ api' = api /\ disk' = disk
              /\ ret'.nreq = 1
       /\ (/\ ~IsIdle("c1") /\ calls'["c1"].op = "idle"
           /\ ret'.kind = "failure") =>
              /\ ret'.status = "raised"
              /\ ret'.err = Some("ClientError")
              /\ ret'.nreq = calls["c1"].nreq
              /\ api' = api /\ disk' = disk]_vars

\* C22 witness: at 13 the request of a full-episodic fetch failed; the
\* chapters and the records cached at 0 are still in their tables, the
\* marker is still 0, the purge records of chapters and records are those
\* of hour 0 and the files are those of the start.
C22_Witness ==
    /\ ret.kind = "failure" /\ ret.op = "full_episodic" /\ ret.at = 13
    /\ ret.status = "raised" /\ ret.nreq = 1
    /\ api.cached_chapters # None /\ api.cached_chapters[2] = 0
    /\ api.last_full_episodic_cache = Some(0)
    /\ "r1" \in DOMAIN api.cached_records
    /\ Get(api.last_cache_purge, CHAPTERS) = Some(0)
    /\ Get(api.last_cache_purge, RECORDS) = Some(0)
    /\ disk = PriorDisk

-----------------------------------------------------------------------------
(* The image-contents fetch, under SpecImages *)

\* C23: an answered request of an image-contents fetch never ends the
\* fetch with an exception: after the image metadata and the full-image
\* GET the fetch waits for the thumbnail GET, and when that is answered
\* too it returns the image pair, stored under its key at that time and
\* saved to the image-contents files.
C23_ImageContents ==
    (ret.kind = "response" /\ ret.op = "image_contents") =>
        /\ ret.status \in {"suspended", "returned"}
        /\ ret.status = "returned" =>
              /\ ret.key \in DOMAIN api.cached_image_contents
              /\ api.cached_image_contents[ret.key][2] = ret.at
              /\ ret.value = Some(api.cached_image_contents[ret.key][1])
              /\ Exists(disk, ImagePath(ret.key))
              /\ Exists(disk, ThumbPath(ret.key))

-----------------------------------------------------------------------------
(* The record lines of a domain search, under SpecFetch *)

\* C24: when a domain search that went to the transport returns, its
\* entry is written at that time and a result carries a record line
\* exactly when it has a line index and a solved record; the text of that
\* record is then in the record-contents table and the line is its line
\* at that index.  Every other step of a domain search (its call, a
\* response after which a record text is still awaited, a failed request,
\* a line index past the end of the text) leaves the entry of its
\* (term, type) as it was.
C24_SearchRecordLines ==
    [][(/\ ret'.op = "domain_search"
        /\ \/ ops' = ops + 1 /\ ret'.kind = "call"
           \/ /\ ~IsIdle("c1") /\ ret'.kind \in {"response", "failure"}
              /\ \/ calls'["c1"].op = "idle"
                 \/ calls'["c1"].nreq > calls["c1"].nreq) =>
          IF ret'.kind = "response" /\ ret'.status = "returned"
          THEN /\ ret'.key \in DOMAIN api'.cached_search_results
               /\ LET e == api'.cached_search_results[ret'.key]
                  IN  /\ e[2] = now
                      /\ ret'.value = Some(e[1])
                      /\ \A n \in DOMAIN e[1] :
                            /\ e[1][n].record_line # None <=>
                                  /\ e[1][n].record_line_index # None
                                  /\ e[1][n].record[1].solved
                            /\ e[1][n].record_line # None =>
                                  LET name == e[1][n].record[1].name
                                      index == e[1][n].record_line_index[1]
                                  IN  /\ name \in DOMAIN api'.cached_record_contents
                                      /\ e[1][n].record_line =
                                            Some(api'.cached_record_contents[name][1]
                                                     .lines[index + 1])
          ELSE Get(api'.cached_search_results, ret'.key) =
                  Get(api.cached_search_results, ret'.key)]_vars

\* C24 witness: a line search returned two results after a request for
\* the text of r1: the first, of the unsolved r2, has a line index and no
\* line, the second has the second line of r1.
C24_Witness ==
    /\ ret.kind = "response" /\ ret.op = "domain_search"
    /\ ret.status = "returned" /\ ret.nreq = 2
    /\ Len(ret.value[1]) = 2
    /\ ret.value[1][1].record_line_index # None
    /\ ret.value[1][1].record_line = None
    /\ ret.value[1][2].record_line = Some("l2")
    /\ "r2" \notin DOMAIN api.cached_record_contents

-----------------------------------------------------------------------------
(* The staleness test, under SpecStale *)

\* One fetch of all chapters, of all images or of the record r1, and
\* introspection of the chapters and of the records without ignore_stale,
\* at the last fresh hour (12) and the first stale hour (13) of what was
\* cached at 0.
NextStale ==
    \/ Call("c1", "full_episodic", None, MaxStale)
    \/ Call("c1", "all_images", None, MaxStale)
    \/ Call("c1", "single_record", "r1", MaxStale)
    \/ Respond("c1")
    \/ \E cache \in {CHAPTERS, RECORDS} : Inspect(cache, FALSE)
    \/ Tick(EpisodicInstants)

SpecStale == Init /\ [][NextStale]_vars

\* C25: an entry or a marker cached at c is stale exactly when
\* now > c + ttl.  A single-record fetch whose entry exists is served from
\* the cache iff now <= c + ttl; an all-images or full-episodic fetch
\* whose marker is set issues no request iff now <= marker + ttl;
\* introspection of the chapters returns them iff now <= c + ttl, and
\* introspection of the records, when it returns, returns exactly the
\* entries with now <= c + ttl, and it does return when every entry is
\* such.
C25_StrictStaleness ==
    [][/\ (ops' = ops + 1 /\ ret'.kind = "call") =>
             /\ (ret'.op = "single_record" /\ ret'.key \in DOMAIN api.cached_records) =>
                   ((ret'.status = "returned" /\ ret'.nreq = 0
                       /\ ret'.value = Some(api.cached_records[ret'.key][1]))
                    <=> now <= api.cached_records[ret'.key][2]
                                  + CACHE_DURATION[RECORDS])
             /\ (ret'.op = "all_images" /\ api.last_all_images_cache # None) =>
                   ((ret'.status = "returned" /\ ret'.nreq = 0)
                    <=> now <= api.last_all_images_cache[1] + CACHE_DURATION[IMAGES])
             /\ (ret'.op = "full_episodic" /\ api.last_full_episodic_cache # None) =>
                   ((ret'.status = "returned" /\ ret'.nreq = 0)
                    <=> now <= api.last_full_episodic_cache[1]
                                  + CACHE_DURATION[CHAPTERS])
       /\ (ret'.kind = "inspect" /\ now' = now /\ ~ret'.force) =>
             /\ (ret'.key = CHAPTERS /\ api.cached_chapters # None) =>
                   (ret'.value # None
                    <=> now <= api.cached_chapters[2] + CACHE_DURATION[CHAPTERS])
             /\ ret'.key = RECORDS =>
                   LET fresh == {k \in DOMAIN api.cached_records :
                                    now <= api.cached_records[k][2]
                                              + CACHE_DURATION[RECORDS]}
                   IN  /\ ret'.status = "returned" =>
                             DOMAIN ret'.value[1] = fresh
                       /\ fresh = DOMAIN api.cached_records =>
                             ret'.status = "returned"]_vars

\* C25 witness: at 12 introspection of the records without ignore_stale
\* returned r1, cached at 0 and expiring at 12.
C25_Witness ==
    /\ ret.kind = "inspect" /\ ret.key = RECORDS /\ ~ret.force
    /\ ret.at = 12 /\ ret.status = "returned"
    /\ "r1" \in DOMAIN ret.value[1]
    /\ ret.value[1]["r1"][2] = 0
    /\ ret.value[1]["r1"][3] = 12

-----------------------------------------------------------------------------
(* Records after a full-episodic fetch, under SpecEpisodic *)

\* C26: when the chapters in the table were fetched at t (the marker is
\* t) and the records were last purged at t, by that fetch, a
\* single-record fetch at now <= t + ttl of a record marked solved in
\* those chapters issues no request and returns that record of the
\* chapters.
C26_SolvedRecordsServed ==
    [][(/\ ops' = ops + 1 /\ ret'.kind = "call" /\ ret'.op = "single_record"
        /\ api.cached_chapters # None
        /\ api.last_full_episodic_cache = Some(api.cached_chapters[2])
        /\ Get(api.last_cache_purge, RECORDS) = Some(api.cached_chapters[2])
        /\ now <= api.cached_chapters[2] + CACHE_DURATION[RECORDS]
        /\ \E c \in DOMAIN api.cached_chapters[1] :
              \E j \in DOMAIN api.cached_chapters[1][c].records :
                 /\ api.cached_chapters[1][c].records[j].name = ret'.key
                 /\ api.cached_chapters[1][c].records[j].solved) =>
          /\ ret'.status = "returned"
          /\ ret'.nreq = 0
          /\ \E c \in DOMAIN api.cached_chapters[1] :
                \E j \in DOMAIN api.cached_chapters[1][c].records :
                   /\ api.cached_chapters[1][c].records[j].solved
                   /\ ret'.value = Some(api.cached_chapters[1][c].records[j])
          /\ api' = api /\ disk' = disk]_vars

\* C26 witness: the chapters were fetched at 12 on a cold cache, and at
\* 13 the record r2, solved in them, was returned with no request.
C26_Witness ==
    /\ ret.kind = "call" /\ ret.op = "single_record" /\ ret.key = "r2"
    /\ ret.status = "returned" /\ ret.nreq = 0 /\ ret.at = 13
    /\ api.cached_chapters # None /\ api.cached_chapters[2] = 12
    /\ api.cached_records["r2"][2] = 12
    /\ ret.value = Some(api.cached_records["r2"][1])
    /\ ~Exists(disk, CachePath(NEWS_ITEMS))

\* C29: an all-images fetch that went to the transport leaves the purge
\* record of the images at its time t, and a full-episodic fetch those of
\* the chapters and of the records; while the marker of that fetch is
\* set, a purge of one of these caches without force at now < t +
\* cooldown raises CachePurgeError "too soon" and changes nothing.
C29_ForcedPurgeRecorded ==
    [][/\ (/\ ~IsIdle("c1") /\ calls'["c1"].op = "idle"
           /\ ret'.kind = "response" /\ ret'.status = "returned") =>
             /\ ret'.op = "all_images" =>
                   Get(api'.last_cache_purge, IMAGES) = Some(now)
             /\ ret'.op = "full_episodic" =>
                   /\ Get(api'.last_cache_purge, CHAPTERS) = Some(now)
                   /\ Get(api'.last_cache_purge, RECORDS) = Some(now)
       /\ (PurgeStep /\ ~ret'.force) =>
             LET D == ret'.key
                 marker == IF D = IMAGES THEN api.last_all_images_cache
                           ELSE api.last_full_episodic_cache
             IN  (marker # None /\ now < marker[1] + CACHE_PURGE_COOLDOWN[D]) =>
                     /\ ret'.status = "raised"
                     /\ ret'.err[2] = CACHE_PURGE
                     /\ ret'.err[3] = Some(marker[1] + CACHE_PURGE_COOLDOWN[D])
                     /\ api' = api /\ disk' = disk]_vars

\* C29 witness: on a cold cache the chapters were fetched at 13, no purge
\* was asked for before, and a purge of the records without force at 13
\* was refused.
C29_Witness ==
    /\ ret.kind = "purge" /\ ret.key = RECORDS /\ ~ret.force
    /\ ret.status = "raised" /\ ret.at = 13
    /\ api.last_full_episodic_cache = Some(13)
    /\ api.last_cache_purge = (CHAPTERS :> 13 @@ RECORDS :> 13)
    /\ ~Exists(disk, CachePath(NEWS_ITEMS))

-----------------------------------------------------------------------------
(* Purges and restarts, under SpecSave *)

\* C27: what a purge destroyed stays destroyed when the process restarts
\* right after it: the table of the purged cache holds no entry after
\* __load_all_cache, so that neither introspection nor a fetch can hand
\* back an entry of before the purge.
C27_PurgedStaysPurged ==
    [][(/\ ret.kind = "purge" /\ ret.status = "returned"
        /\ ret.key # FULL_RECORD_CONTENTS
        /\ ret'.kind = "restart") =>
          /\ Table(api', ret.key) \in {None, EmptyDict}
          /\ get_cached_items(api', ret.key, TRUE, now).value
                 \in {None, Some(EmptyDict)}]_vars

\* C28: the cooldown of a purge outlives a restart: when purge(D)
\* succeeded at p and the process restarted right after it, a purge of D
\* without force that is the next operation, at now < p + cooldown[D],
\* raises CachePurgeError "too soon".
C28_CooldownSurvivesRestart ==
    [][(/\ ret.kind = "restart" /\ ret.recv # None
        /\ PurgeStep /\ ~ret'.force
        /\ ret'.key = ret.recv[1][1]
        /\ now < ret.recv[1][2] + CACHE_PURGE_COOLDOWN[ret'.key]) =>
          /\ ret'.status = "raised"
          /\ ret'.err[2] = CACHE_PURGE]_vars

-----------------------------------------------------------------------------
(* The markers and their tables, under SpecCrash *)

\* C30: while the program runs, the chapters table is present whenever
\* the last-full-episodic marker is set, and the images table is
\* populated whenever the last-all-images marker is set.
C30_MarkerHasTable ==
    Running =>
        /\ api.last_full_episodic_cache # None => api.cached_chapters # None
        /\ api.last_all_images_cache # None => api.cached_images # EmptyDict

-----------------------------------------------------------------------------
(* Purges while a fetch waits, under SpecFetch *)

\* C31: a purge may run whenever a fetch waits for a response, and not
\* between the update of the table and the return statement: a fetch
\* that ends on a response returns the value of the entry that is then
\* in the table under its key, cached at that time, and the one exception
\* a fetch ends with after a response is the IndexError of a line index
\* past the end of a record text.
C31_ReturnsWhatItStored ==
    [][(/\ ~IsIdle("c1") /\ calls'["c1"].op = "idle"
        /\ ret'.kind = "response" /\ ret'.op \in KeyedFetches) =>
          LET e == Entry(api', CacheOf(ret'.op), ret'.key)
          IN  IF ret'.status = "returned"
              THEN /\ e # None
                   /\ e[1][2] = now
                   /\ ret'.value = Some(e[1][1])
              ELSE /\ ret'.op = "domain_search"
                   /\ ret'.err = Some("IndexError")]_vars

\* C31 witness: a record text was fetched with two requests and returned
\* at 13 from the entry stored at 13, the record contents having been
\* purged by force at 12.
C31_Witness ==
    /\ ret.kind = "response" /\ ret.op = "record_text"
    /\ ret.status = "returned" /\ ret.nreq = 2 /\ ret.at = 13
    /\ Get(api.last_cache_purge, RECORD_CONTENTS) = Some(12)
    /\ api.cached_record_contents["r1"][2] = 13
    /\ ret.value = Some(api.cached_record_contents["r1"][1])

-----------------------------------------------------------------------------
(* The single-image fetch with no name, under SpecImages *)

\* C32: a single-image fetch with no name that went to the transport
\* leaves the returned image, cached at that time, under the key None
\* and under its own name, and returns it; a single-image fetch by that
\* name that is the next operation, at now <= that time + ttl, returns
\* the same image with no request.
C32_DefaultImageTwice ==
    [][/\ (/\ ~IsIdle("c1") /\ calls'["c1"].op = "idle"
           /\ ret'.kind = "response" /\ ret'.op = "single_image"
           /\ ret'.key = NoneKey) =>
             LET image == ImageFromObj(AbsoluteUrls(ret'.recv[1]))
             IN  /\ ret'.status = "returned"
                 /\ ret'.value = Some(image)
                 /\ Get(api'.cached_images, NoneKey) = Some(<<image, now>>)
                 /\ Get(api'.cached_images, image.name) = Some(<<image, now>>)
       /\ (/\ ret.kind = "response" /\ ret.op = "single_image"
           /\ ret.key = NoneKey /\ ret.status = "returned"
           /\ ops' = ops + 1 /\ ret'.kind = "call"
           /\ ret'.op = "single_image" /\ ret'.key = ret.value[1].name
           /\ now <= ret.at + CACHE_DURATION[IMAGES]) =>
             /\ ret'.status = "returned"
             /\ ret'.nreq = 0
             /\ ret'.value = ret.value
             /\ api' = api /\ disk' = disk]_vars

\* C32 witness: on a cold cache the fetch with no name stored image b at
\* 12 under both keys, and at 13 the fetch of b was served from the cache.
C32_Witness ==
    /\ ret.kind = "call" /\ ret.op = "single_image" /\ ret.key = "b"
    /\ ret.status = "returned" /\ ret.nreq = 0 /\ ret.at = 13
    /\ DOMAIN api.cached_images = {NoneKey, "b"}
    /\ api.cached_images[NoneKey] = api.cached_images["b"]
    /\ api.cached_images["b"][2] = 12

-----------------------------------------------------------------------------
(* The two requests of a record-text fetch, under SpecFetch *)

\* the record-text fetch of caller c1 waits for the request of stage,
\* and this step ends the wait
WaitsIn(stage) ==
    /\ calls["c1"].op = "record_text"
    /\ Top(calls["c1"].stack).stage = stage
    /\ calls'["c1"] # calls["c1"]

\* file f of disk' holds the table of cache as it is in api'
SavedNow(cache) ==
    Get(disk', CachePath(cache)) = Some(Document(CacheContents(api', cache)[1]))

\* C33: a record-text fetch on a miss issues the record_text request
\* first; its response resolves the title through a single-record fetch,
\* a cache hit when the record is fresh and else one single_record
\* request, whose response writes and saves the record; the record
\* contents entry is written and saved only when both have succeeded,
\* and a failure of either request leaves the cache and the disk as they
\* were.
C33_TextThenTitle ==
    [][/\ (/\ ops' = ops + 1 /\ ret'.kind = "call" /\ ret'.op = "record_text"
           /\ MustFetch(api.cached_record_contents, ret'.key,
                        RECORD_CONTENTS, now)) =>
             /\ ret'.status = "suspended" /\ ret'.nreq = 1
             /\ Len(calls'["c1"].stack) = 1
             /\ Top(calls'["c1"].stack).stage = "record_text"
             /\ api' = api /\ disk' = disk
       /\ (WaitsIn("record_text") /\ ret'.kind = "response") =>
             LET name == calls["c1"].key
             IN  IF MustFetch(api.cached_records, name, RECORDS, now)
                 THEN /\ ret'.status = "suspended" /\ ret'.nreq = 2
                      /\ Top(calls'["c1"].stack).stage = "single_record"
                      /\ api' = api /\ disk' = disk
                 ELSE /\ ret'.status = "returned" /\ ret'.nreq = 1
                      /\ api'.cached_records = api.cached_records
                      /\ Get(api'.cached_record_contents, name) =
                            Some(<<[title |-> api.cached_records[name][1].title,
                                    lines |-> ret'.recv[1].lines], now>>)
                      /\ ret'.value = Some(api'.cached_record_contents[name][1])
                      /\ SavedNow(RECORD_CONTENTS)
       /\ (WaitsIn("single_record") /\ ret'.kind = "response") =>
             LET name == calls["c1"].key
                 record_contents == calls["c1"].stack[1].hold
             IN  /\ ret'.status = "returned" /\ ret'.nreq = 2
                 /\ Get(api'.cached_records, name) =
                       Some(<<RecordFromObj(ret'.recv[1]), now>>)
                 /\ Get(api'.cached_record_contents, name) =
                       Some(<<[title |-> ret'.recv[1].title,
                               lines |-> record_contents.lines], now>>)
                 /\ ret'.value = Some(api'.cached_record_contents[name][1])
                 /\ SavedNow(RECORDS) /\ SavedNow(RECORD_CONTENTS)
       /\ (/\ calls["c1"].op = "record_text" /\ calls'["c1"] # calls["c1"]
           /\ ret'.kind = "failure") =>
             /\ ret'.status = "raised" /\ IsIdle("c1")'
             /\ api' = api /\ disk' = disk]_vars

\* C33 witness: the record r1 was stale at 73, the record-text fetch
\* issued both requests and stored the text under the title it fetched.
C33_Witness ==
    /\ ret.kind = "response" /\ ret.op = "record_text" /\ ret.key = "r1"
    /\ ret.status = "returned" /\ ret.nreq = 2 /\ ret.at = 73
    /\ api.cached_records["r1"][2] = 73
    /\ api.cached_record_contents["r1"] =
          <<[title |-> ret.recv[1].title, lines |-> <<"l1", "l2">>], 73>>
    /\ api.last_cache_purge = <<>>

\* C33 second witness: a record-text fetch ended by a failure of its
\* nested single_record request, the record contents still empty.
C33_WitnessDiscarded ==
    /\ ret.kind = "failure" /\ ret.op = "record_text" /\ ret.nreq = 2
    /\ api.cached_record_contents = <<>>
    /\ ~Exists(disk, CachePath(RECORD_CONTENTS))

=============================================================================
